---- MODULE Spec2Model ----
(***************************************************************************)
(* A model of the core of the mk48 server and client (GitLocked/shipwreck): *)
(* the mutation queue (server/src/world_mutation.rs), the physics border   *)
(* step (server/src/world_physics.rs), the terrain engine                  *)
(* (common/src/terrain.rs) and the client contact store                    *)
(* (client/src/interpolated_contact.rs).                                   *)
(*                                                                         *)
(* Each subsystem has its own variables, initial predicate and next-state  *)
(* relation; a specification of one subsystem keeps the variables of the   *)
(* others at their idle values.                                            *)
(***************************************************************************)
EXTENDS Integers, Sequences, FiniteSets, TLC

VARIABLES
    \* ---- mutation queue of one target entity (world_mutation.rs) ----
    mutations,          \* the mutations queued for the entity, in insertion order
    world,              \* the entity, the players' scores, removal and death reason
    applied,            \* the calls of Mutation::apply made by the drain, in order
    mpc,                \* "queueing" until the drain ran, then "drained"
    mdelta,             \* the duration of the tick being drained (Ticks)
    debug_assertions,   \* cfg(debug_assertions) of the build
    \* ---- concurrent Terrain::get_chunk (terrain.rs) ----
    gptr,               \* per chunk slot: the AtomicPtr<Chunk> (Null or an allocation)
    glock,              \* the holder of Terrain.mutex, or NoThread
    gpc,                \* per thread: its position in get_chunk / get_chunk_slow
    gtarget,            \* per thread: the chunk id of its current call
    gcalls,             \* per thread: the calls it has completed
    gsynced,            \* per thread: the chunks whose initialisation happens-before it
    generated,          \* per chunk slot: how many times Chunk::new ran for it
    gret,               \* per thread: what its last call returned and observed
    \* ---- one chunk through Chunk::to_bytes / Chunk::from_bytes (terrain.rs) ----
    cdata,              \* Chunk.data of the chunk: rows of bytes, two pixels a byte
    cbytes,             \* the Vec<u8> returned by to_bytes
    cdecoded,           \* Chunk.data of the chunk returned by from_bytes
    csets,              \* the calls of Chunk::set made on the chunk since it was generated
    cpc,                \* "chunk", then "encoded", then "decoded"
    \* ---- one chunk through set_capture and updated_rects (terrain.rs) ----
    rchunk,             \* the Chunk: data, next_regen, update
    rrects,             \* the rectangles returned by updated_rects
    rpc,                \* "capturing" until updated_rects ran, then "meshed"
    \* ---- the server's Terrain through its tick (terrain.rs) ----
    terrain,            \* the Terrain: chunks, updated, generator
    tnow,               \* Instant::now(), in ticks
    tphase,             \* the place in the tick: "write", "pre_updated", "broadcast"
    twrites,            \* the calls of Terrain::set made in this tick
    tsent,              \* the SerializedChunk broadcast for each updated chunk
    tchanged,           \* the chunks of which a pixel changed since the last broadcast
    tregenerated,       \* the chunks the last post_update regenerated
    tpanic,             \* whether a call panicked
    \* ---- the server's World through World::physics (world_physics.rs) ----
    entities,           \* World.entities: per index an entity or NoEntity
    radius,             \* World.radius
    pphase,             \* the place in the tick: "physics", "radius"
    pfates,             \* the Fate the last call of physics gave each index
    \* ---- the client's contacts through its ticks ----
    contacts,           \* Mk48State.contacts: per entity id a contact or NoContact
    ctick,              \* the ticks (server updates) the client has processed
    clost,              \* per entity id: the last removal of its contact
    late_check,         \* whether the removal follows the end-of-tick increment
    \* ---- one contact through generate_particles (interpolated_contact.rs) ----
    icontact,           \* the InterpolatedContact: model and view
    particles,          \* the particles the last generate_particles added
    ipc,                \* "updating", "updated", "generated"
    iframes,            \* the frames completed
    \* ---- terrain bytes and altitudes through lookup_altitude / reverse_lookup_altitude (terrain.rs) ----
    astart,             \* the kind of the value the conversions started from: "raw" or "altitude"
    atrace,             \* the value and what the conversions made of it, in order
    \* ---- the Terrain through Terrain::modify (terrain.rs) ----
    mterrain,           \* the Terrain
    mbefore,            \* the Terrain before the last call of Terrain::modify
    mmutation,          \* the TerrainMutation of the last call
    mresult,            \* what the last call returned
    mcalls,             \* the calls of Terrain::modify made
    \* ---- the Terrain through Terrain::apply_update (terrain.rs) ----
    uterrain,           \* the Terrain that Terrain::apply_update is called on
    ubefore,            \* the Terrain before the call of Terrain::apply_update
    uupdate,            \* the TerrainUpdate of the call
    uresult,            \* how the call ended
    ucalls,             \* the calls of Terrain::apply_update made
    \* ---- the accumulators of World::physics (world_physics.rs) ----
    dworld,             \* terrain, scores, reloads, flags and barrels of the World that physics drains into
    dbefore,            \* dworld before the last physics
    dtasks,             \* what the entities of the last physics were and met
    dorder,             \* the order in which the accumulators of the last physics were filled
    dlog,               \* the outcome of every terrain mutation the last physics drained
    dticks,             \* the calls of physics made
    \* ---- one Turret through Turret::within_azimuth (entity.rs) ----
    zturret,            \* the Turret
    zcurr,              \* the boat-relative angle of the last call of within_azimuth
    zresult,            \* what the last call returned
    zcalls,             \* the calls of within_azimuth made
    \* ---- the player's contact through Mk48Game::find_best_armament (client/src/armament.rs) ----
    fcontact,           \* reloads, turret angle and aims of the player's contact in the last call
    fselection,         \* the armament selection of the last call
    flimit,             \* angle_limit of the last call
    fresult,            \* what the last call of find_best_armament returned
    fcalls,             \* the calls of find_best_armament made
    \* ---- the Terrain of the server and of one client through broadcasts (terrain.rs, client/src/state.rs) ----
    sserver,            \* the Terrain of the server
    sclient,            \* the Terrain of the client (Mk48State.terrain)
    sknown,             \* the chunks the server has sent the client
    sflight,            \* the TerrainUpdate on its way to the client, if one is
    sshot,              \* the server's pixels of every chunk at the last broadcast
    sdirty,             \* the client's pixels that the updates applied since the last clear_updated changed
    sphase,             \* the place in the server's tick
    snow,               \* Instant::now() of the server, in ticks
    swrites,            \* the calls of Terrain::set made in this tick
    \* ---- the fates of World::physics and the entity indices (world_physics.rs) ----
    xsectors,           \* Entities, the entities of every sector in index order
    xnext,              \* the identity the next spawned entity gets
    xfates,             \* the fates collected by the parallel pass, sorted before they are applied
    xreloads,           \* limited_reloads, with the identity of the boat at the index
    xawards,            \* the award indices of terrain_mutations that changed the terrain
    xphase,             \* the place in World::physics
    xlog,               \* the records and fates applied so far
    \* ---- the regeneration of an edited chunk (terrain.rs) ----
    nterrain,           \* the Terrain whose chunk is edited and left alone
    nnow,               \* Instant::now(), in ticks
    nphase,             \* "edit" while the chunk is edited, then "regen"
    nedits,             \* the calls of Terrain::set made
    nregens,            \* the regenerations of the chunk so far
    nprev,              \* the pixels of the chunk before its last regeneration
    nstart,             \* the pixels of the chunk after its last edit
    \* ---- EntityData::update_turret_aim (entity.rs) ----
    hturret,            \* the turret of the boat
    hspeed,             \* turret.speed, in angle units a second
    hangle,             \* turret_angles[i]
    hprev,              \* turret_angles[i] before the last call
    htarget,            \* direction_target of the last call
    hdelta,             \* delta_seconds of the last call
    hcalls,             \* the calls of update_turret_aim made
    \* ---- the operations of Terrain in any order (terrain.rs) ----
    vterrain,           \* the Terrain operated on
    vnow,               \* Instant::now(), in ticks
    vops,               \* the operations made
    vlast,              \* the last operation
    vpanic,             \* whether an operation panicked
    \* ---- a boat that collides with terrain (world_physics.rs) ----
    oentity,            \* the boat
    obefore,            \* the boat before the last tick
    oaltitude,          \* collision_altitude of the last tick
    ofate,              \* what the closure returned for the boat in the last tick
    opushes,            \* the terrain mutations the last tick pushed
    ocollisions,        \* the ticks in which the boat collided
    \* ---- a boat that leaves the world border (world_physics.rs) ----
    bentity,            \* the boat
    bbefore,            \* the boat before the last tick
    bradius,            \* the radius of the world
    bfate,              \* what the closure returned for the boat in the last tick
    bticks,             \* the ticks of physics made
    \* ---- a projectile that rises to the surface (world_physics.rs) ----
    qentity,            \* the projectile
    qbefore,            \* the projectile before the last tick
    qchange,            \* altitude_change of the last tick
    qmax_speed,         \* max_speed of the last tick
    qfate,              \* what the closure returned for the projectile in the last tick
    qcount,             \* the ticks of physics made
    qrun,               \* the ticks made while every tick was one of rising submerged
    qstart,             \* entity.ticks when the projectile was launched
    \* ---- ChunkSet, the bitmap of chunk ids (terrain.rs) ----
    ka,                 \* a ChunkSet
    kb,                 \* another ChunkSet
    kaids,              \* the ChunkIds that ka is to contain
    kbids,              \* the ChunkIds that kb is to contain
    kops,               \* the operations made
    \* ---- the conversion of a position to a ChunkId (terrain.rs) ----
    jpos,               \* the position converted, in half pixels
    jtry,               \* what ChunkId::try_from returned
    jsat,               \* what ChunkId::saturating_from returned
    jcalls              \* the conversions made

mutVars == <<mutations, world, applied, mpc, mdelta, debug_assertions>>
getVars == <<gptr, glock, gpc, gtarget, gcalls, gsynced, generated, gret>>

codecVars == <<cdata, cbytes, cdecoded, csets, cpc>>

rectVars == <<rchunk, rrects, rpc>>

terrainVars == <<terrain, tnow, tphase, twrites, tsent, tchanged, tregenerated, tpanic>>

physVars == <<entities, radius, pphase, pfates>>

contactVars == <<contacts, ctick, clost, late_check>>

particleVars == <<icontact, particles, ipc, iframes>>

altVars == <<astart, atrace>>

modifyVars == <<mterrain, mbefore, mmutation, mresult, mcalls>>

applyVars == <<uterrain, ubefore, uupdate, uresult, ucalls>>

drainVars == <<dworld, dbefore, dtasks, dorder, dlog, dticks>>

azimuthVars == <<zturret, zcurr, zresult, zcalls>>

armVars == <<fcontact, fselection, flimit, fresult, fcalls>>

syncVars == <<sserver, sclient, sknown, sflight, sshot, sdirty, sphase, snow, swrites>>

fateVars == <<xsectors, xnext, xfates, xreloads, xawards, xphase, xlog>>

regenVars == <<nterrain, nnow, nphase, nedits, nregens, nprev, nstart>>

aimVars == <<hturret, hspeed, hangle, hprev, htarget, hdelta, hcalls>>

updVars == <<vterrain, vnow, vops, vlast, vpanic>>

collideVars == <<oentity, obefore, oaltitude, ofate, opushes, ocollisions>>

borderVars == <<bentity, bbefore, bradius, bfate, bticks>>

surfaceVars == <<qentity, qbefore, qchange, qmax_speed, qfate, qcount, qrun, qstart>>

bitmapVars == <<ka, kb, kaids, kbids, kops>>

convertVars == <<jpos, jtry, jsat, jcalls>>

vars ==
    <<mutVars,
      getVars,
      codecVars,
      rectVars,
      terrainVars,
      physVars,
      contactVars,
      particleVars,
      altVars,
      modifyVars,
      applyVars,
      drainVars,
      azimuthVars,
      armVars,
      syncVars,
      fateVars,
      regenVars,
      aimVars,
      updVars,
      collideVars,
      borderVars,
      surfaceVars,
      bitmapVars,
      convertVars>>

\* What the actions of one subsystem leave alone: the other subsystems.
notMutVars == <<getVars, codecVars, rectVars, terrainVars, physVars, contactVars, particleVars, altVars, modifyVars, applyVars, drainVars, azimuthVars, armVars, syncVars, fateVars, regenVars, aimVars, updVars, collideVars, borderVars, surfaceVars, bitmapVars, convertVars>>
notGetVars == <<mutVars, codecVars, rectVars, terrainVars, physVars, contactVars, particleVars, altVars, modifyVars, applyVars, drainVars, azimuthVars, armVars, syncVars, fateVars, regenVars, aimVars, updVars, collideVars, borderVars, surfaceVars, bitmapVars, convertVars>>
notCodecVars == <<mutVars, getVars, rectVars, terrainVars, physVars, contactVars, particleVars, altVars, modifyVars, applyVars, drainVars, azimuthVars, armVars, syncVars, fateVars, regenVars, aimVars, updVars, collideVars, borderVars, surfaceVars, bitmapVars, convertVars>>
notRectVars == <<mutVars, getVars, codecVars, terrainVars, physVars, contactVars, particleVars, altVars, modifyVars, applyVars, drainVars, azimuthVars, armVars, syncVars, fateVars, regenVars, aimVars, updVars, collideVars, borderVars, surfaceVars, bitmapVars, convertVars>>
notTerrainVars == <<mutVars, getVars, codecVars, rectVars, physVars, contactVars, particleVars, altVars, modifyVars, applyVars, drainVars, azimuthVars, armVars, syncVars, fateVars, regenVars, aimVars, updVars, collideVars, borderVars, surfaceVars, bitmapVars, convertVars>>
notPhysVars == <<mutVars, getVars, codecVars, rectVars, terrainVars, contactVars, particleVars, altVars, modifyVars, applyVars, drainVars, azimuthVars, armVars, syncVars, fateVars, regenVars, aimVars, updVars, collideVars, borderVars, surfaceVars, bitmapVars, convertVars>>
notContactVars == <<mutVars, getVars, codecVars, rectVars, terrainVars, physVars, particleVars, altVars, modifyVars, applyVars, drainVars, azimuthVars, armVars, syncVars, fateVars, regenVars, aimVars, updVars, collideVars, borderVars, surfaceVars, bitmapVars, convertVars>>
notParticleVars == <<mutVars, getVars, codecVars, rectVars, terrainVars, physVars, contactVars, altVars, modifyVars, applyVars, drainVars, azimuthVars, armVars, syncVars, fateVars, regenVars, aimVars, updVars, collideVars, borderVars, surfaceVars, bitmapVars, convertVars>>
notAltVars == <<mutVars, getVars, codecVars, rectVars, terrainVars, physVars, contactVars, particleVars, modifyVars, applyVars, drainVars, azimuthVars, armVars, syncVars, fateVars, regenVars, aimVars, updVars, collideVars, borderVars, surfaceVars, bitmapVars, convertVars>>
notModifyVars == <<mutVars, getVars, codecVars, rectVars, terrainVars, physVars, contactVars, particleVars, altVars, applyVars, drainVars, azimuthVars, armVars, syncVars, fateVars, regenVars, aimVars, updVars, collideVars, borderVars, surfaceVars, bitmapVars, convertVars>>
notApplyVars == <<mutVars, getVars, codecVars, rectVars, terrainVars, physVars, contactVars, particleVars, altVars, modifyVars, drainVars, azimuthVars, armVars, syncVars, fateVars, regenVars, aimVars, updVars, collideVars, borderVars, surfaceVars, bitmapVars, convertVars>>
notDrainVars == <<mutVars, getVars, codecVars, rectVars, terrainVars, physVars, contactVars, particleVars, altVars, modifyVars, applyVars, azimuthVars, armVars, syncVars, fateVars, regenVars, aimVars, updVars, collideVars, borderVars, surfaceVars, bitmapVars, convertVars>>
notAzimuthVars == <<mutVars, getVars, codecVars, rectVars, terrainVars, physVars, contactVars, particleVars, altVars, modifyVars, applyVars, drainVars, armVars, syncVars, fateVars, regenVars, aimVars, updVars, collideVars, borderVars, surfaceVars, bitmapVars, convertVars>>
notArmVars == <<mutVars, getVars, codecVars, rectVars, terrainVars, physVars, contactVars, particleVars, altVars, modifyVars, applyVars, drainVars, azimuthVars, syncVars, fateVars, regenVars, aimVars, updVars, collideVars, borderVars, surfaceVars, bitmapVars, convertVars>>
notSyncVars == <<mutVars, getVars, codecVars, rectVars, terrainVars, physVars, contactVars, particleVars, altVars, modifyVars, applyVars, drainVars, azimuthVars, armVars, fateVars, regenVars, aimVars, updVars, collideVars, borderVars, surfaceVars, bitmapVars, convertVars>>
notFatesVars == <<mutVars, getVars, codecVars, rectVars, terrainVars, physVars, contactVars, particleVars, altVars, modifyVars, applyVars, drainVars, azimuthVars, armVars, syncVars, regenVars, aimVars, updVars, collideVars, borderVars, surfaceVars, bitmapVars, convertVars>>
notRegenVars == <<mutVars, getVars, codecVars, rectVars, terrainVars, physVars, contactVars, particleVars, altVars, modifyVars, applyVars, drainVars, azimuthVars, armVars, syncVars, fateVars, aimVars, updVars, collideVars, borderVars, surfaceVars, bitmapVars, convertVars>>
notAimVars == <<mutVars, getVars, codecVars, rectVars, terrainVars, physVars, contactVars, particleVars, altVars, modifyVars, applyVars, drainVars, azimuthVars, armVars, syncVars, fateVars, regenVars, updVars, collideVars, borderVars, surfaceVars, bitmapVars, convertVars>>
notUpdVars == <<mutVars, getVars, codecVars, rectVars, terrainVars, physVars, contactVars, particleVars, altVars, modifyVars, applyVars, drainVars, azimuthVars, armVars, syncVars, fateVars, regenVars, aimVars, collideVars, borderVars, surfaceVars, bitmapVars, convertVars>>
notCollideVars == <<mutVars, getVars, codecVars, rectVars, terrainVars, physVars, contactVars, particleVars, altVars, modifyVars, applyVars, drainVars, azimuthVars, armVars, syncVars, fateVars, regenVars, aimVars, updVars, borderVars, surfaceVars, bitmapVars, convertVars>>
notBorderVars == <<mutVars, getVars, codecVars, rectVars, terrainVars, physVars, contactVars, particleVars, altVars, modifyVars, applyVars, drainVars, azimuthVars, armVars, syncVars, fateVars, regenVars, aimVars, updVars, collideVars, surfaceVars, bitmapVars, convertVars>>
notSurfaceVars == <<mutVars, getVars, codecVars, rectVars, terrainVars, physVars, contactVars, particleVars, altVars, modifyVars, applyVars, drainVars, azimuthVars, armVars, syncVars, fateVars, regenVars, aimVars, updVars, collideVars, borderVars, bitmapVars, convertVars>>
notBitmapVars == <<mutVars, getVars, codecVars, rectVars, terrainVars, physVars, contactVars, particleVars, altVars, modifyVars, applyVars, drainVars, azimuthVars, armVars, syncVars, fateVars, regenVars, aimVars, updVars, collideVars, borderVars, surfaceVars, convertVars>>
notConvertVars == <<mutVars, getVars, codecVars, rectVars, terrainVars, physVars, contactVars, particleVars, altVars, modifyVars, applyVars, drainVars, azimuthVars, armVars, syncVars, fateVars, regenVars, aimVars, updVars, collideVars, borderVars, surfaceVars, bitmapVars>>

\* No chunk is being encoded.
CodecIdle ==
    /\ cdata = <<>>
    /\ cbytes = <<>>
    /\ cdecoded = <<>>
    /\ csets = 0
    /\ cpc = "idle"

\* No chunk is being meshed.
RectIdle ==
    /\ rchunk = <<>>
    /\ rrects = <<>>
    /\ rpc = "idle"

\* No Terrain is ticking.
TerrainIdle ==
    /\ terrain = <<>>
    /\ tnow = 0
    /\ tphase = "idle"
    /\ twrites = 0
    /\ tsent = <<>>
    /\ tchanged = {}
    /\ tregenerated = {}
    /\ tpanic = FALSE

\* No client is ticking.
ContactIdle ==
    /\ contacts = <<>>
    /\ ctick = 0
    /\ clost = <<>>
    /\ late_check = FALSE

\* No contact is generating particles.
ParticleIdle ==
    /\ icontact = <<>>
    /\ particles = <<>>
    /\ ipc = "idle"
    /\ iframes = 0

\* No World is ticking.
PhysIdle ==
    /\ entities = <<>>
    /\ radius = 0
    /\ pphase = "idle"
    /\ pfates = <<>>

\* No altitude is being converted.
AltIdle ==
    /\ astart = "idle"
    /\ atrace = <<>>

\* No Terrain is being modified.
ModifyIdle ==
    /\ mterrain = <<>>
    /\ mbefore = <<>>
    /\ mmutation = <<>>
    /\ mresult = <<>>
    /\ mcalls = 0

\* Terrain::apply_update is not in use
ApplyIdle ==
    /\ uterrain = <<>>
    /\ ubefore = <<>>
    /\ uupdate = <<>>
    /\ uresult = ""
    /\ ucalls = 0

\* the accumulators of World::physics are not in use
DrainIdle ==
    /\ dworld = <<>>
    /\ dbefore = <<>>
    /\ dtasks = <<>>
    /\ dorder = <<>>
    /\ dlog = <<>>
    /\ dticks = 0

\* No turret is asked.
AzimuthIdle ==
    /\ zturret = <<>>
    /\ zcurr = 0
    /\ zresult = FALSE
    /\ zcalls = 0

\* No armament is looked for.
ArmIdle ==
    /\ fcontact = <<>>
    /\ fselection = <<>>
    /\ flimit = FALSE
    /\ fresult = -1
    /\ fcalls = 0

\* No client is connected.
SyncIdle ==
    /\ sserver = <<>>
    /\ sclient = <<>>
    /\ sknown = {}
    /\ sflight = <<>>
    /\ sshot = <<>>
    /\ sdirty = {}
    /\ sphase = "idle"
    /\ snow = 0
    /\ swrites = 0

\* No physics pass is running.
FatesIdle ==
    /\ xsectors = <<>>
    /\ xnext = 0
    /\ xfates = <<>>
    /\ xreloads = <<>>
    /\ xawards = <<>>
    /\ xphase = "idle"
    /\ xlog = <<>>

\* No chunk is regenerating.
RegenIdle ==
    /\ nterrain = <<>>
    /\ nnow = 0
    /\ nphase = "idle"
    /\ nedits = 0
    /\ nregens = 0
    /\ nprev = <<>>
    /\ nstart = <<>>

\* No turret is aimed.
AimIdle ==
    /\ hturret = <<>>
    /\ hspeed = 0
    /\ hangle = 0
    /\ hprev = 0
    /\ htarget = 0
    /\ hdelta = 0
    /\ hcalls = 0

\* No Terrain is operated on.
UpdIdle ==
    /\ vterrain = <<>>
    /\ vnow = 0
    /\ vops = 0
    /\ vlast = ""
    /\ vpanic = FALSE

\* No boat collides.
CollideIdle ==
    /\ oentity = <<>>
    /\ obefore = <<>>
    /\ oaltitude = 0
    /\ ofate = ""
    /\ opushes = <<>>
    /\ ocollisions = 0

\* No boat is at the border.
BorderIdle ==
    /\ bentity = <<>>
    /\ bbefore = <<>>
    /\ bradius = 0
    /\ bfate = ""
    /\ bticks = 0

\* No projectile rises.
SurfaceIdle ==
    /\ qentity = <<>>
    /\ qbefore = <<>>
    /\ qchange = 0
    /\ qmax_speed = 0
    /\ qfate = ""
    /\ qcount = 0
    /\ qrun = 0
    /\ qstart = 0

\* No ChunkSet is built.
BitmapIdle ==
    /\ ka = <<>>
    /\ kb = <<>>
    /\ kaids = {}
    /\ kbids = {}
    /\ kops = 0

\* No position is converted.
ConvertIdle ==
    /\ jpos = <<>>
    /\ jtry = <<>>
    /\ jsat = <<>>
    /\ jcalls = 0

(***************************************************************************)
(* Small helpers.                                                          *)
(***************************************************************************)
Min(a, b) == IF a < b THEN a ELSE b
Max(a, b) == IF a > b THEN a ELSE b

\* Ticks is a saturating u16 (0.1 s each).
TicksMax == 2^16 - 1
TicksSaturatingAdd(a, b) == Min(a + b, TicksMax)
TicksSaturatingSub(a, b) == Max(a - b, 0)

\* clamp_magnitude of a signed scalar velocity (model unit: m/s).
ClampMagnitude(v, limit) == Max(-limit, Min(limit, v))

(***************************************************************************)
(* Terrain::get_chunk, called concurrently: common/src/terrain.rs          *)
(***************************************************************************)
\* Bounds of the model: the threads that call get_chunk (the parallel physics
\* tasks), and the calls each of them makes.
NumThreads == 2
MaxCalls == 2

Threads == 1..NumThreads
NoThread == 0
Null == <<"null", 0>>
\* The chunk slots the calls are for.
RacedChunks == {"A", "B"}

GetIdle ==
    /\ gptr = [c \in RacedChunks |-> Null]
    /\ glock = NoThread
    /\ gpc = [t \in Threads |-> "stopped"]
    /\ gtarget = [t \in Threads |-> "A"]
    /\ gcalls = [t \in Threads |-> 0]
    /\ gsynced = [t \in Threads |-> {}]
    /\ generated = [c \in RacedChunks |-> 0]
    /\ gret = [t \in Threads |-> [chunk |-> Null, complete |-> TRUE]]

\* Terrain::with_generator: no chunk is allocated.
GetInit ==
    /\ gptr = [c \in RacedChunks |-> Null]
    /\ glock = NoThread
    /\ gpc = [t \in Threads |-> "idle"]
    /\ gtarget = [t \in Threads |-> "A"]
    /\ gcalls = [t \in Threads |-> 0]
    /\ gsynced = [t \in Threads |-> {}]
    /\ generated = [c \in RacedChunks |-> 0]
    /\ gret = [t \in Threads |-> [chunk |-> Null, complete |-> TRUE]]

\* The return of a call: the reference handed to the caller and whether the
\* caller sees the chunk's pixels completely generated through it.
Returned(t, chunk, complete) ==
    /\ gret' = [gret EXCEPT ![t] = [chunk |-> chunk, complete |-> complete]]
    /\ gcalls' = [gcalls EXCEPT ![t] = @ + 1]
    /\ gpc' = [gpc EXCEPT ![t] = "idle"]

\* A thread calls get_chunk(chunk_id).
GetChunkCall(t, c) ==
    /\ gpc[t] = "idle"
    /\ gcalls[t] < MaxCalls
    /\ gpc' = [gpc EXCEPT ![t] = "fast"]
    /\ gtarget' = [gtarget EXCEPT ![t] = c]
    /\ UNCHANGED <<gptr, glock, gcalls, gsynced, generated, gret>>
    /\ UNCHANGED notGetVars

\* What a thread can observe of a chunk it reached through a Relaxed load:
\* the load does not synchronise with the Release store, so unless the
\* initialisation already happens-before the thread (it generated the chunk,
\* or took the mutex after the generator released it), its reads of the
\* pixels race with the generator's writes and may see either.
RelaxedObservations(t, c) == IF c \in gsynced[t] THEN {TRUE} ELSE BOOLEAN

\* get_chunk: ptr.load(Ordering::Relaxed); a non-null pointer is returned.
FastPathHit(t) ==
    /\ gpc[t] = "fast"
    /\ gptr[gtarget[t]] # Null
    /\ \E seen \in RelaxedObservations(t, gtarget[t]) : Returned(t, gptr[gtarget[t]], seen)
    /\ UNCHANGED <<gptr, glock, gtarget, gsynced, generated>>
    /\ UNCHANGED notGetVars

\* get_chunk: the pointer is null, the call goes on in get_chunk_slow.
FastPathMiss(t) ==
    /\ gpc[t] = "fast"
    /\ gptr[gtarget[t]] = Null
    /\ gpc' = [gpc EXCEPT ![t] = "lock"]
    /\ UNCHANGED <<gptr, glock, gtarget, gcalls, gsynced, generated, gret>>
    /\ UNCHANGED notGetVars

\* get_chunk_slow: self.mutex.lock(). Taking the mutex synchronises with every
\* earlier release of it, and every chunk is published before such a release.
SlowLock(t) ==
    /\ gpc[t] = "lock"
    /\ glock = NoThread
    /\ glock' = t
    /\ gsynced' = [gsynced EXCEPT ![t] = @ \cup {c \in RacedChunks : gptr[c] # Null}]
    /\ gpc' = [gpc EXCEPT ![t] = "check"]
    /\ UNCHANGED <<gptr, gtarget, gcalls, generated, gret>>
    /\ UNCHANGED notGetVars

\* get_chunk_slow: ptr.load(Ordering::Acquire) found the chunk; the guard is
\* dropped by the return.
SlowPathHit(t) ==
    /\ gpc[t] = "check"
    /\ gptr[gtarget[t]] # Null
    /\ glock' = NoThread
    /\ Returned(t, gptr[gtarget[t]], TRUE)
    /\ UNCHANGED <<gptr, gtarget, gsynced, generated>>
    /\ UNCHANGED notGetVars

\* get_chunk_slow: Chunk::new(chunk_id, generator), then
\* ptr.store(chunk, Ordering::Release). The allocation is named by its slot
\* and by the number of the generation.
SlowGenerate(t) ==
    /\ gpc[t] = "check"
    /\ gptr[gtarget[t]] = Null
    /\ generated' = [generated EXCEPT ![gtarget[t]] = @ + 1]
    /\ gptr' = [gptr EXCEPT ![gtarget[t]] = <<gtarget[t], generated[gtarget[t]] + 1>>]
    /\ gsynced' = [gsynced EXCEPT ![t] = @ \cup {gtarget[t]}]
    /\ gpc' = [gpc EXCEPT ![t] = "unlock"]
    /\ UNCHANGED <<glock, gtarget, gcalls, gret>>
    /\ UNCHANGED notGetVars

\* get_chunk_slow: drop(lock); the generated chunk is returned.
SlowUnlock(t) ==
    /\ gpc[t] = "unlock"
    /\ glock' = NoThread
    /\ Returned(t, gptr[gtarget[t]], TRUE)
    /\ UNCHANGED <<gptr, gtarget, gsynced, generated>>
    /\ UNCHANGED notGetVars

GetNext ==
    \E t \in Threads :
        \/ \E c \in RacedChunks : GetChunkCall(t, c)
        \/ FastPathHit(t)
        \/ FastPathMiss(t)
        \/ SlowLock(t)
        \/ SlowPathHit(t)
        \/ SlowGenerate(t)
        \/ SlowUnlock(t)

(***************************************************************************)
(* Mutation queue: server/src/world_mutation.rs                            *)
(***************************************************************************)
\* Bound of the model: how many mutations are queued for the entity in a tick.
MaxMutations == 3

\* The players: P0 owns the target entity, P1 and P2 own the other entities.
Players == {"P0", "P1", "P2"}

\* DeathReason (common/src/death_reason.rs).
DeathReason(kind, player) == [kind |-> kind, player |-> player]
NoPlayer == "none"

\* DeathReason::is_due_to_player
is_due_to_player(reason) == reason.kind \in {"Boat", "Ram", "Weapon"}

\* The target entity: a boat of player P0 (its static data, then its state).
TargetData == [kind |-> "Boat", max_health |-> 20, armaments |-> 2]
\* The duration of a tick, in Ticks (the server ticks with Ticks::ONE).
Deltas == {1}

\* The mutations that may be queued in the model: Mutation's variants with
\* the arguments that make them differ in priority or in effect.
\* Vectors are pairs of integers; signal strengths and damages are integers.
MutHitBy(p, d) == [type |-> "HitBy", other_player |-> p, weapon_type |-> "Shell", damage |-> d]
MutRemove(kind, p) == [type |-> "Remove", reason |-> DeathReason(kind, p)]
MutCollectedBy(p, s) == [type |-> "CollectedBy", player |-> p, score |-> s]
MutAttraction(dx, dy, v) == [type |-> "Attraction", delta |-> <<dx, dy>>, velocity |-> v]
MutGuidance(dir, alt, sig) ==
    [type |-> "Guidance", direction_target |-> dir, altitude_target |-> alt, signal_strength |-> sig]
MutCollidedWithBoat(p, d, imp, ram) ==
    [type |-> "CollidedWithBoat", other_player |-> p, damage |-> d, impulse |-> imp, ram |-> ram]

MutationPool ==
    { [type |-> "FireAll", sub_kind |-> "Torpedo"],
      MutRemove("Border", NoPlayer), MutRemove("Ram", "P1"),
      MutHitBy("P1", 5), MutHitBy("P2", 30),
      MutCollidedWithBoat("P2", 18, 20, FALSE),
      MutCollectedBy("P1", 5), MutCollectedBy("P2", 5),
      MutAttraction(1, 0, 3), MutAttraction(0, 2, 5),
      MutGuidance(90, 40, 2), MutGuidance(180, -40, 7),
      [type |-> "CollidedWithObstacle", impulse |-> 30, entity_type |-> "OilPlatform"] }

\* absolute_priority with the priorities of Remove and HitBy exchanged.
absolute_priority_swapped(m) ==
    CASE m.type = "FireAll" -> 127
      [] m.type = "Remove" -> 125
      [] m.type = "HitBy" -> 126
      [] m.type = "CollidedWithBoat" -> 124
      [] m.type = "CollectedBy" -> 123
      [] m.type = "Attraction" -> 101
      [] m.type = "Guidance" -> 100
      [] OTHER -> 0

\* Mutation::absolute_priority
absolute_priority(m) ==
    CASE m.type = "FireAll" -> 127
      [] m.type = "Remove" -> 126
      [] m.type = "HitBy" -> 125
      [] m.type = "CollidedWithBoat" -> 124
      [] m.type = "CollectedBy" -> 123
      [] m.type = "Attraction" -> 101
      [] m.type = "Guidance" -> 100
      [] OTHER -> 0

\* Vec2::length_squared
length_squared(v) == v[1] * v[1] + v[2] * v[2]

\* relative_priority without the rule for Remove.
relative_priority_no_remove_rule(m) ==
    CASE m.type = "Guidance" -> -(10 * m.signal_strength)
      [] m.type = "HitBy" -> m.damage
      [] m.type = "CollidedWithBoat" -> m.damage
      [] m.type = "Attraction" -> 10 * length_squared(m.delta)
      [] OTHER -> 0

\* relative_priority with the sign of the Attraction rule reversed.
relative_priority_attraction_negated(m) ==
    CASE m.type = "Remove" -> IF is_due_to_player(m.reason) THEN 10 ELSE 0
      [] m.type = "Guidance" -> -(10 * m.signal_strength)
      [] m.type = "HitBy" -> m.damage
      [] m.type = "CollidedWithBoat" -> m.damage
      [] m.type = "Attraction" -> -(10 * length_squared(m.delta))
      [] OTHER -> 0

\* Mutation::relative_priority, in tenths (an f32 in the source; Ticks::to_secs
\* is ticks / 10, so a damage of d ticks has relative priority d tenths).
relative_priority(m) ==
    CASE m.type = "Remove" -> IF is_due_to_player(m.reason) THEN 10 ELSE 0
      [] m.type = "Guidance" -> -(10 * m.signal_strength)
      [] m.type = "HitBy" -> m.damage
      [] m.type = "CollidedWithBoat" -> m.damage
      [] m.type = "Attraction" -> 10 * length_squared(m.delta)
      [] OTHER -> 0

\* The state that Mutation::apply reads and writes: the target entity
\* (world.entities[index]), the players' scores, and the outcome of
\* World::remove. `loot` counts the calls of boat_died and records their
\* score_to_coins; `spawned` counts spawn_here_or_nearby calls of FireAll.
InitWorld ==
    [ present |-> TRUE,
      death_reason |-> DeathReason("none", NoPlayer),
      entity_type |-> "Boat",
      ticks |-> 4,
      velocity |-> 10,
      direction |-> 0,
      direction_target |-> 0,
      altitude |-> 0,
      spawned |-> 0,
      loot |-> <<>>,
      score |-> [p \in Players |-> IF p = "P0" THEN 100 ELSE 0] ]

\* common::util::{kill_score, ram_score, respawn_score}: outside the sources;
\* stand-ins that keep the three distinguishable.
kill_score(score) == 10 + score \div 4
ram_score(score) == 5 + score \div 4
respawn_score(score) == score \div 2

\* Entity::damage (server entity.rs, outside the sources): adds the damage to
\* the entity's ticks; the entity dies when they exceed its max_health.
EntityDamage(w, damage) == [w EXCEPT !.ticks = TicksSaturatingAdd(w.ticks, damage)]
EntityDied(w) == w.ticks > TargetData.max_health
\* Entity::kill_in(delta, time): the damage that kills a healthy entity in `time`.
KillInDamage(delta, time) == Max(1, (TargetData.max_health * delta) \div time)
\* Entity::apply_altitude_target: one rate-limited step towards the target.
ApplyAltitudeTarget(w, target, rate, delta) ==
    [w EXCEPT !.altitude = w.altitude + ClampMagnitude(target - w.altitude, rate * delta)]

\* Angle::from(Vec2), for axis-aligned vectors, in degrees.
AngleFrom(v) ==
    CASE v[1] > 0 /\ v[2] = 0 -> 0
      [] v[1] = 0 /\ v[2] > 0 -> 90
      [] v[1] < 0 /\ v[2] = 0 -> 180
      [] v[1] = 0 /\ v[2] < 0 -> -90
      [] OTHER -> 0

\* World::remove that leaves the entity in the world.
WorldRemoveKeeps(w, reason) == w

\* World::remove(index, reason)
WorldRemove(w, reason) == [w EXCEPT !.present = FALSE, !.death_reason = reason]

\* boat_died that leaves the player's score as it was.
boat_died_keeps_score(w, score_to_coins) ==
    [w EXCEPT !.loot = Append(w.loot, [score |-> w.score["P0"], coins |-> score_to_coins])]

\* Mutation::boat_died: the player's score becomes respawn_score of it, and
\* loot is dropped (for the score before the death).
boat_died(w, score_to_coins) ==
    [w EXCEPT !.score["P0"] = respawn_score(w.score["P0"]),
              !.loot = Append(w.loot, [score |-> w.score["P0"], coins |-> score_to_coins])]

\* Mutation::apply: the world after the mutation, and whether the entity was removed.
Applied(w, removed) == [world |-> w, removed |-> removed]

apply(m, w, delta, is_last_of_type, debug) ==
    CASE m.type = "Remove" ->
            Applied(WorldRemove(IF debug /\ w.entity_type = "Boat"
                                    THEN boat_died(w, FALSE) ELSE w, m.reason), TRUE)
      [] m.type = "HitBy" ->
            LET e == EntityDamage(w, m.damage) IN
            IF EntityDied(e)
                THEN LET paid == [e EXCEPT !.score[m.other_player] = @ + kill_score(e.score["P0"])]
                     IN Applied(WorldRemove(boat_died(paid, FALSE),
                                            DeathReason("Weapon", m.other_player)), TRUE)
                ELSE Applied(e, FALSE)
      [] m.type = "CollidedWithBoat" ->
            LET e == EntityDamage(w, m.damage) IN
            IF EntityDied(e)
                THEN LET paid == [e EXCEPT !.score[m.other_player] = @ + ram_score(e.score["P0"])]
                     IN Applied(WorldRemove(boat_died(paid, FALSE),
                                            DeathReason(IF m.ram THEN "Ram" ELSE "Boat",
                                                        m.other_player)), TRUE)
                ELSE Applied([e EXCEPT !.velocity = ClampMagnitude(e.velocity + m.impulse, 15)],
                             FALSE)
      [] m.type = "CollidedWithObstacle" ->
            LET e == EntityDamage(w, KillInDamage(delta, 60)) IN
            IF EntityDied(e)
                THEN Applied(WorldRemove(boat_died(e, TRUE), DeathReason("Entity", NoPlayer)), TRUE)
                ELSE Applied([e EXCEPT !.velocity = ClampMagnitude(e.velocity + m.impulse, 20)],
                             FALSE)
      [] m.type = "UpgradeHq" ->
            Applied([w EXCEPT !.entity_type = "Hq", !.ticks = 0], FALSE)
      [] m.type = "Repair" ->
            Applied([w EXCEPT !.ticks = TicksSaturatingSub(w.ticks, m.amount)], FALSE)
      [] m.type = "Score" ->
            Applied([w EXCEPT !.score["P0"] = @ + m.score], FALSE)
      [] m.type = "CollectedBy" ->
            Applied(WorldRemove([w EXCEPT !.score[m.player] = @ + m.score],
                                DeathReason("Unknown", NoPlayer)), TRUE)
      [] m.type = "Guidance" ->
            IF is_last_of_type
                THEN Applied(ApplyAltitudeTarget([w EXCEPT !.direction_target = m.direction_target],
                                                 m.altitude_target, 5, delta), FALSE)
                ELSE Applied(w, FALSE)
      [] m.type = "Attraction" ->
            Applied([w EXCEPT !.direction = AngleFrom(m.delta), !.velocity = m.velocity], FALSE)
      [] m.type = "FireAll" ->
            Applied([w EXCEPT !.ticks = 0, !.spawned = @ + TargetData.armaments], FALSE)
      [] OTHER -> Applied(w, FALSE)

\* The drain of the mutations of one entity (World::apply_mutations, outside
\* the sources; from the specification of the mutation queue): a stable sort
\* by absolute priority descending, then relative priority descending, then
\* the calls of apply in that order until one reports the entity removed.
GoesBefore(a, b) ==
    \/ absolute_priority(a) > absolute_priority(b)
    \/ /\ absolute_priority(a) = absolute_priority(b)
       /\ relative_priority(a) > relative_priority(b)

\* Entries of the queue carry their insertion number: [m, seq].
RECURSIVE InsertSorted(_, _)
InsertSorted(sorted, e) ==
    IF sorted = <<>> THEN <<e>>
    ELSE IF GoesBefore(e.m, Head(sorted).m) THEN <<e>> \o sorted
    ELSE <<Head(sorted)>> \o InsertSorted(Tail(sorted), e)

RECURSIVE SortStable(_)
SortStable(q) ==
    IF q = <<>> THEN <<>>
    ELSE InsertSorted(SortStable(SubSeq(q, 1, Len(q) - 1)), q[Len(q)])

Numbered(q) == [i \in 1..Len(q) |-> [m |-> q[i], seq |-> i]]

SortMutations(q) == SortStable(Numbered(q))

\* is_last_of_type that is true for every mutation.
IsLastOfTypeAlways(sorted, i) == TRUE

\* is_last_of_type: no later mutation of the sorted queue has the same variant.
IsLastOfType(sorted, i) == \A j \in (i + 1)..Len(sorted) : sorted[j].m.type # sorted[i].m.type

\* The drain loop from position i: the world it leaves and the calls it made.
RECURSIVE DrainFrom(_, _, _, _, _, _)
DrainFrom(sorted, i, w, log, delta, debug) ==
    IF i > Len(sorted) THEN [world |-> w, applied |-> log]
    ELSE LET r == apply(sorted[i].m, w, delta, IsLastOfType(sorted, i), debug)
             entry == [m |-> sorted[i].m, seq |-> sorted[i].seq, removed |-> r.removed]
         IN IF r.removed
                THEN [world |-> r.world, applied |-> Append(log, entry)]
                ELSE DrainFrom(sorted, i + 1, r.world, Append(log, entry), delta, debug)

DrainResult(q, delta, debug) == DrainFrom(SortMutations(q), 1, InitWorld, <<>>, delta, debug)

\* The mutation queue while another subsystem is being explored.
MutIdle ==
    /\ mutations = <<>>
    /\ world = InitWorld
    /\ applied = <<>>
    /\ mpc = "idle"
    /\ mdelta = 1
    /\ debug_assertions = FALSE

MutInit ==
    /\ mutations = <<>>
    /\ world = InitWorld
    /\ applied = <<>>
    /\ mpc = "queueing"
    /\ mdelta \in Deltas
    /\ debug_assertions \in BOOLEAN

\* A physics or collision step queues one more mutation for the entity.
Enqueue(m) ==
    /\ mpc = "queueing"
    /\ Len(mutations) < MaxMutations
    /\ mutations' = Append(mutations, m)
    /\ UNCHANGED <<world, applied, mpc, mdelta, debug_assertions>>
    /\ UNCHANGED notMutVars

\* The drain of the tick: sorts the queue and applies it.
Drain ==
    /\ mpc = "queueing"
    /\ LET r == DrainResult(mutations, mdelta, debug_assertions) IN
        /\ world' = r.world
        /\ applied' = r.applied
    /\ mpc' = "drained"
    /\ UNCHANGED <<mutations, mdelta, debug_assertions>>
    /\ UNCHANGED notMutVars

MutNext ==
    \/ \E m \in MutationPool : Enqueue(m)
    \/ Drain

InitMut == MutInit /\ GetIdle /\ CodecIdle /\ RectIdle /\ TerrainIdle /\ PhysIdle /\ ContactIdle /\ ParticleIdle /\ AltIdle /\ ModifyIdle /\ ApplyIdle /\ DrainIdle /\ AzimuthIdle /\ ArmIdle /\ SyncIdle /\ FatesIdle /\ RegenIdle /\ AimIdle /\ UpdIdle /\ CollideIdle /\ BorderIdle /\ SurfaceIdle /\ BitmapIdle /\ ConvertIdle

SpecMut == InitMut /\ [][MutNext]_vars

(***************************************************************************)
(* Claims about the mutation queue.                                        *)
(***************************************************************************)
\* The order of the variants as the priority table states it: FireAll first,
\* then Remove, HitBy, CollidedWithBoat, CollectedBy, Attraction, Guidance,
\* and every other variant last.
TableRank(m) ==
    CASE m.type = "FireAll" -> 1
      [] m.type = "Remove" -> 2
      [] m.type = "HitBy" -> 3
      [] m.type = "CollidedWithBoat" -> 4
      [] m.type = "CollectedBy" -> 5
      [] m.type = "Attraction" -> 6
      [] m.type = "Guidance" -> 7
      [] OTHER -> 8

\* a is applied no later than b: variant order, then relative priority
\* descending, then insertion order.
InDrainOrder(a, b) ==
    \/ TableRank(a.m) < TableRank(b.m)
    \/ /\ TableRank(a.m) = TableRank(b.m)
       /\ \/ relative_priority(a.m) > relative_priority(b.m)
          \/ /\ relative_priority(a.m) = relative_priority(b.m)
             /\ a.seq < b.seq

AppliedSeqs == {applied[i].seq : i \in 1..Len(applied)}

\* C1: the drain applies the queued mutations in the order absolute priority
\* descending (FireAll before Remove before HitBy ...), relative priority
\* descending, insertion order; nothing is applied after an application that
\* reported the entity removed, and what is skipped sorts after the remover.
C1_DrainOrder ==
    mpc = "drained" =>
        /\ \A i \in 1..Len(applied) :
              /\ applied[i].seq \in 1..Len(mutations)
              /\ applied[i].m = mutations[applied[i].seq]
        /\ \A i, j \in 1..Len(applied) : i < j => InDrainOrder(applied[i], applied[j])
        /\ \A i \in 1..(Len(applied) - 1) : ~applied[i].removed
        /\ IF \E i \in 1..Len(applied) : applied[i].removed
              THEN /\ ~world.present
                   /\ \A k \in (1..Len(mutations)) \ AppliedSeqs :
                         InDrainOrder(applied[Len(applied)], [m |-> mutations[k], seq |-> k])
              ELSE /\ world.present
                   /\ AppliedSeqs = 1..Len(mutations)
                   /\ Len(applied) = Len(mutations)

\* C1 witness: a drain that reordered the queue and cut it short at a removal.
C1_Witness ==
    /\ mpc = "drained"
    /\ Len(mutations) = 3
    /\ Len(applied) = 2
    /\ applied[1].seq > applied[2].seq
    /\ applied[2].removed

\* What is left of the world for an observer: the entity's state while it is
\* present, and otherwise only the removal, its reason, the scores and the drops.
FinalState(w) ==
    IF w.present THEN w
    ELSE [present |-> FALSE, death_reason |-> w.death_reason, score |-> w.score,
          loot |-> w.loot, spawned |-> w.spawned]

PermutationsUpTo ==
    [n \in 0..MaxMutations |-> {f \in [1..n -> 1..n] : \A i, j \in 1..n : f[i] = f[j] => i = j}]
IndexPermutations(n) == PermutationsUpTo[n]
Permuted(q, f) == [i \in 1..Len(q) |-> q[f[i]]]

\* Two mutations have the same priorities by the priority table: the same
\* variant and the same relative-priority argument (every variant outside
\* the table has priorities 0 / 0).
TableTie(a, b) ==
    /\ TableRank(a) = TableRank(b)
    /\ CASE a.type = "Remove" -> is_due_to_player(a.reason) = is_due_to_player(b.reason)
         [] a.type \in {"HitBy", "CollidedWithBoat"} -> a.damage = b.damage
         [] a.type = "Attraction" -> length_squared(a.delta) = length_squared(b.delta)
         [] a.type = "Guidance" -> a.signal_strength = b.signal_strength
         [] OTHER -> TRUE

\* The permutation f keeps mutations of equal priorities in their relative order.
KeepsTies(q, f) ==
    \A i, j \in 1..Len(q) : (i < j /\ TableTie(q[f[i]], q[f[j]])) => f[i] < f[j]

GuidanceTie(q) ==
    \E i, j \in 1..Len(q) :
        /\ i # j
        /\ q[i].type = "Guidance" /\ q[j].type = "Guidance"
        /\ q[i].signal_strength = q[j].signal_strength

\* C2 as stated: whatever the enqueue order of the same multiset, the drain
\* leaves the same final state (Guidance ties on signal_strength excepted).
C2_AnyEnqueueOrder ==
    (mpc = "drained" /\ ~GuidanceTie(mutations)) =>
        \A f \in IndexPermutations(Len(mutations)) :
            FinalState(DrainResult(Permuted(mutations, f), mdelta, debug_assertions).world)
                = FinalState(world)

\* C2 amended: the final state is the same for every enqueue order that
\* keeps the mutations of equal absolute and relative priority in the same
\* relative order (those are applied in enqueue order).
C2_EnqueueOrderUpToTies ==
    mpc = "drained" =>
        \A f \in IndexPermutations(Len(mutations)) :
            KeepsTies(mutations, f) =>
                FinalState(DrainResult(Permuted(mutations, f), mdelta, debug_assertions).world)
                    = FinalState(world)

\* C2 witness: three mutations of different priorities, enqueued in the
\* reverse of their drain order, were drained and the entity survived.
C2_Witness ==
    /\ mpc = "drained"
    /\ Len(applied) = 3
    /\ applied[1].seq = 3 /\ applied[3].seq = 1
    /\ \A i, j \in 1..3 : i # j => ~TableTie(mutations[i], mutations[j])
    /\ world.present

InitGet == GetInit /\ MutIdle /\ CodecIdle /\ RectIdle /\ TerrainIdle /\ PhysIdle /\ ContactIdle /\ ParticleIdle /\ AltIdle /\ ModifyIdle /\ ApplyIdle /\ DrainIdle /\ AzimuthIdle /\ ArmIdle /\ SyncIdle /\ FatesIdle /\ RegenIdle /\ AimIdle /\ UpdIdle /\ CollideIdle /\ BorderIdle /\ SurfaceIdle /\ BitmapIdle /\ ConvertIdle

SpecGet == InitGet /\ [][GetNext]_vars

\* The absolute priority that the priority table gives a variant.
TableAbsolute(m) ==
    CASE m.type = "FireAll" -> 127
      [] m.type = "Remove" -> 126
      [] m.type = "HitBy" -> 125
      [] m.type = "CollidedWithBoat" -> 124
      [] m.type = "CollectedBy" -> 123
      [] m.type = "Attraction" -> 101
      [] m.type = "Guidance" -> 100
      [] OTHER -> 0

\* The relative priority of the priority table, in tenths, but for Attraction.
TableRelative(m) ==
    CASE m.type = "Remove" -> IF m.reason.kind \in {"Boat", "Ram", "Weapon"} THEN 10 ELSE 0
      [] m.type \in {"HitBy", "CollidedWithBoat"} -> m.damage
      [] m.type = "Guidance" -> -(10 * m.signal_strength)
      [] OTHER -> 0

\* The squared length of the delta of an Attraction, in tenths.
AttractionDistance(m) == 10 * (m.delta[1] * m.delta[1] + m.delta[2] * m.delta[2])

\* C16 as stated: absolute_priority and relative_priority return the values
\* of the priority table, FireAll 127 / 0, Remove 126 / 1 if due to a player
\* else 0, HitBy 125 / damage, CollidedWithBoat 124 / damage, CollectedBy
\* 123 / 0, Attraction 101 / minus the squared length of its delta, Guidance
\* 100 / minus signal_strength, every other variant 0 / 0.
C16_PriorityTable ==
    \A i \in 1..Len(mutations) :
        /\ absolute_priority(mutations[i]) = TableAbsolute(mutations[i])
        /\ relative_priority(mutations[i]) =
              IF mutations[i].type = "Attraction" THEN -AttractionDistance(mutations[i])
              ELSE TableRelative(mutations[i])

\* C16, amended: the same table with the relative priority of Attraction
\* being the squared length of its delta (not its negation), so that the
\* closest attraction is applied last.
C16_PriorityTableAttractionPositive ==
    \A i \in 1..Len(mutations) :
        /\ absolute_priority(mutations[i]) = TableAbsolute(mutations[i])
        /\ relative_priority(mutations[i]) =
              IF mutations[i].type = "Attraction" THEN AttractionDistance(mutations[i])
              ELSE TableRelative(mutations[i])

\* The queue holds an Attraction, a Remove due to a player and a Guidance.
C16_Witness ==
    /\ \E i \in 1..Len(mutations) : mutations[i].type = "Attraction"
    /\ \E i \in 1..Len(mutations) :
          mutations[i].type = "Remove" /\ relative_priority(mutations[i]) = 10
    /\ \E i \in 1..Len(mutations) :
          mutations[i].type = "Guidance" /\ relative_priority(mutations[i]) < 0

(***************************************************************************)
(* Claims about Terrain::get_chunk.                                        *)
(***************************************************************************)
GetReturnedThreads == {t \in Threads : gret[t].chunk # Null}

\* C3: however concurrent get_chunk calls for a not yet allocated chunk
\* interleave, the chunk is generated exactly once, every caller returns a
\* reference to that same chunk, and no caller observes a chunk that is not
\* completely generated.
C3_GeneratedOnceAndComplete ==
    /\ \A c \in RacedChunks : generated[c] <= 1
    /\ \A t \in GetReturnedThreads :
          /\ generated[gret[t].chunk[1]] = 1
          /\ gret[t].chunk = gptr[gret[t].chunk[1]]
          /\ gret[t].complete

\* The part of C3 that the mutex and the re-check give: one generation per
\* chunk, and one reference for all callers.
C3_GeneratedOnce ==
    /\ \A c \in RacedChunks : generated[c] <= 1
    /\ \A t \in GetReturnedThreads :
          /\ generated[gret[t].chunk[1]] = 1
          /\ gret[t].chunk = gptr[gret[t].chunk[1]]

(***************************************************************************)
(* Chunk: pixel storage and the run-length encoding over the Hilbert curve *)
(* (common/src/terrain.rs).                                                *)
(***************************************************************************)

\* CHUNK_SIZE is 1 << ChunkBits; the program has 1 << 6.
ChunkBits == 3
CHUNK_SIZE == 2 ^ ChunkBits
ChunkPixels == CHUNK_SIZE * CHUNK_SIZE

\* RelativeCoord / Coord taken modulo CHUNK_SIZE.
Coord(x, y) == <<x, y>>
ChunkCoords == (0..(CHUNK_SIZE - 1)) \X (0..(CHUNK_SIZE - 1))

\* Chunk::zero
ChunkZero == [y \in 0..(CHUNK_SIZE - 1) |-> [sx \in 0..(CHUNK_SIZE \div 2 - 1) |-> 0]]

\* u8 helpers: the high and the low nibble of a byte.
HighNibble(b) == (b % 256) \div 16
LowNibble(b) == b % 16

\* Chunk::at: (self.data[y][sx] << ((x & 1) * 4)) & 0b11110000
ChunkAt(data, coord) ==
    LET x == coord[1]
        y == coord[2] % CHUNK_SIZE
        sx == (x \div 2) % (CHUNK_SIZE \div 2)
    IN  IF x % 2 = 0 THEN HighNibble(data[y][sx]) * 16 ELSE LowNibble(data[y][sx]) * 16

\* Chunk::set: keeps the other nibble of the byte, stores value & 0b11110000.
ChunkSet(data, coord, value) ==
    LET x == coord[1]
        y == coord[2] % CHUNK_SIZE
        sx == (x \div 2) % (CHUNK_SIZE \div 2)
        old == data[y][sx]
    IN  IF x % 2 = 0
        THEN [data EXCEPT ![y][sx] = LowNibble(old) + HighNibble(value) * 16]
        ELSE [data EXCEPT ![y][sx] = HighNibble(old) * 16 + HighNibble(value)]

\* The Hilbert curve of order ChunkBits: index to coordinate (hilbert::h2xy).
RECURSIVE h2xyFrom(_, _, _, _)
h2xyFrom(s, t, x, y) ==
    IF s >= CHUNK_SIZE THEN Coord(x, y)
    ELSE LET rx == (t \div 2) % 2
             ry == (t + rx) % 2
             fx == IF ry = 0 /\ rx = 1 THEN s - 1 - x ELSE x
             fy == IF ry = 0 /\ rx = 1 THEN s - 1 - y ELSE y
             qx == IF ry = 0 THEN fy ELSE fx
             qy == IF ry = 0 THEN fx ELSE fy
         IN  h2xyFrom(2 * s, t \div 4, qx + s * rx, qy + s * ry)

h2xy(i) == h2xyFrom(1, i, 0, 0)

HILBERT_TO_COORD == [i \in 0..(ChunkPixels - 1) |-> h2xy(i)]

MAX_COUNT == 16

\* Compressor::write_byte with the run capped one too late.
write_byte_late_cap(buf, b) ==
    LET next == HighNibble(b)
        n == Len(buf)
    IN  IF n > 0 /\ next = HighNibble(buf[n]) /\ buf[n] % MAX_COUNT < MAX_COUNT
        THEN [buf EXCEPT ![n] = (@ + 1) % 256]
        ELSE Append(buf, next * 16)

\* A variant of write_byte that starts a tuple for every pixel.
write_byte_no_runs(buf, b) == Append(buf, HighNibble(b) * 16)

\* Compressor::write_byte: a tuple is (nibble << 4) | (count - 1).
write_byte(buf, b) ==
    LET next == HighNibble(b)
        n == Len(buf)
    IN  IF n > 0 /\ next = HighNibble(buf[n]) /\ buf[n] % MAX_COUNT < MAX_COUNT - 1
        THEN [buf EXCEPT ![n] = (@ + 1) % 256]
        ELSE Append(buf, next * 16)

\* Chunk::to_bytes: the pixels in Hilbert order through the Compressor. The
\* loop over the ChunkPixels indices is cut into blocks of CHUNK_SIZE, and
\* each test of the buffer makes the step be computed before the next one.
RECURSIVE to_bytes_from(_, _, _, _)
to_bytes_from(data, i, stop, buf) ==
    IF i = stop \/ Len(buf) > i THEN buf
    ELSE to_bytes_from(data, i + 1, stop, write_byte(buf, ChunkAt(data, HILBERT_TO_COORD[i])))

RECURSIVE to_bytes_blocks(_, _, _)
to_bytes_blocks(data, b, buf) ==
    IF b = CHUNK_SIZE \/ Len(buf) > ChunkPixels THEN buf
    ELSE to_bytes_blocks(data, b + 1,
                         to_bytes_from(data, b * CHUNK_SIZE, (b + 1) * CHUNK_SIZE, buf))

to_bytes(data) == to_bytes_blocks(data, 0, <<>>)

\* Option::None of an Option<u8>.
None == -1

\* Decompressor::new
Decompressor(buf) == [buf |-> buf, off |-> 0, repeat |-> 0]

\* Decompressor::next: the item (or "None") and the iterator afterwards.
DecompressorNext(d) ==
    IF d.off < Len(d.buf)
    THEN LET tuple == d.buf[d.off + 1] IN
         [item |-> HighNibble(tuple) * 16,
          iter |-> IF tuple % MAX_COUNT # d.repeat
                   THEN [d EXCEPT !.repeat = @ + 1]
                   ELSE [d EXCEPT !.off = @ + 1, !.repeat = 0]]
    ELSE [item |-> None, iter |-> d]

\* The outcome of a call that panics.
Panic == [panic |-> TRUE]

\* Chunk::from_bytes: the decoded items are set in Hilbert order on a zero
\* chunk; hilbert[i] with i out of range panics. The loop over the items is
\* cut into blocks of CHUNK_SIZE.
RECURSIVE from_bytes_from(_, _)
from_bytes_from(acc, stop) ==
    IF acc.done \/ acc.i >= stop THEN acc
    ELSE LET n == DecompressorNext(acc.iter) IN
         IF n.item = None THEN [acc EXCEPT !.done = TRUE]
         ELSE IF acc.i >= ChunkPixels THEN [acc EXCEPT !.done = TRUE, !.data = Panic]
         ELSE from_bytes_from([iter |-> n.iter, i |-> acc.i + 1, done |-> FALSE,
                               data |-> ChunkSet(acc.data, HILBERT_TO_COORD[acc.i], n.item)],
                              stop)

RECURSIVE from_bytes_blocks(_, _)
from_bytes_blocks(acc, b) ==
    IF acc.done THEN acc.data
    ELSE from_bytes_blocks(from_bytes_from(acc, (b + 1) * CHUNK_SIZE), b + 1)

from_bytes(bytes) ==
    from_bytes_blocks([iter |-> Decompressor(bytes), i |-> 0, done |-> FALSE,
                       data |-> ChunkZero], 0)

\* Generators (fn(usize, usize) -> u8) the chunk is generated with.
Generators == {"zero", "full", "checker", "columns", "halves", "gradient", "sevens"}

Generate(g, x, y) ==
    CASE g = "zero" -> 0
      [] g = "full" -> 255
      [] g = "checker" -> ((x + y) % 2) * 240
      [] g = "columns" -> ((x \div 2) % 16) * 16
      [] g = "halves" -> IF 2 * y < CHUNK_SIZE THEN 48 + 9 ELSE 192 + 3
      [] g = "gradient" -> (16 * (3 * x + 5 * y) + 7) % 256
      [] g = "sevens" -> 7 * 16
      [] g = "ice" -> 144
      [] g = "sand" -> 128
      [] g = "shore" -> IF x % 2 = 0 THEN 96 ELSE 192

\* ChunkId::as_coord
as_coord(chunk_id) == Coord(chunk_id[1] * CHUNK_SIZE, chunk_id[2] * CHUNK_SIZE)

\* ChunkId::from_coord
from_coord(coord) == <<coord[1] \div CHUNK_SIZE, coord[2] \div CHUNK_SIZE>>

\* Chunk::new: for y { for x { chunk.set(Coord(x, y), generator(x + x_offset,
\* y + y_offset)) } } on a zero chunk.
RECURSIVE ChunkNewRow(_, _, _, _, _)
ChunkNewRow(g, offset, y, x, data) ==
    IF x = CHUNK_SIZE \/ DOMAIN data = {} THEN data
    ELSE ChunkNewRow(g, offset, y, x + 1,
                     ChunkSet(data, Coord(x, y), Generate(g, x + offset[1], y + offset[2])))

RECURSIVE ChunkNewFrom(_, _, _, _)
ChunkNewFrom(g, offset, y, data) ==
    IF y = CHUNK_SIZE \/ DOMAIN data = {} THEN data
    ELSE ChunkNewFrom(g, offset, y + 1, ChunkNewRow(g, offset, y, 0, data))

ChunkNew(chunk_id, g) == ChunkNewFrom(g, as_coord(chunk_id), 0, ChunkZero)

\* The pixels and values written to the chunk before it is encoded.
MaxSets == 2
SetCoords == {Coord(0, 0), Coord(1, 0), Coord(CHUNK_SIZE - 1, 2), Coord(2, CHUNK_SIZE - 1)}
SetValues == {0, 16 + 5, 240}

CodecInit ==
    /\ \E g \in Generators : cdata = ChunkNew(<<0, 0>>, g)
    /\ cbytes = <<>>
    /\ cdecoded = <<>>
    /\ csets = 0
    /\ cpc = "chunk"

\* Chunk::set on the chunk.
CodecSet(coord, value) ==
    /\ cpc = "chunk"
    /\ csets < MaxSets
    /\ cdata' = ChunkSet(cdata, coord, value)
    /\ csets' = csets + 1
    /\ UNCHANGED <<cbytes, cdecoded, cpc>>
    /\ UNCHANGED notCodecVars

\* Chunk::to_bytes
CodecToBytes ==
    /\ cpc = "chunk"
    /\ cbytes' = to_bytes(cdata)
    /\ cpc' = "encoded"
    /\ UNCHANGED <<cdata, cdecoded, csets>>
    /\ UNCHANGED notCodecVars

\* Chunk::from_bytes on the bytes of to_bytes.
CodecFromBytes ==
    /\ cpc = "encoded"
    /\ cdecoded' = from_bytes(cbytes)
    /\ cpc' = "decoded"
    /\ UNCHANGED <<cdata, cbytes, csets>>
    /\ UNCHANGED notCodecVars

CodecNext ==
    \/ \E coord \in SetCoords, value \in SetValues : CodecSet(coord, value)
    \/ CodecToBytes
    \/ CodecFromBytes

InitCodec == CodecInit /\ MutIdle /\ GetIdle /\ RectIdle /\ TerrainIdle /\ PhysIdle /\ ContactIdle /\ ParticleIdle /\ AltIdle /\ ModifyIdle /\ ApplyIdle /\ DrainIdle /\ AzimuthIdle /\ ArmIdle /\ SyncIdle /\ FatesIdle /\ RegenIdle /\ AimIdle /\ UpdIdle /\ CollideIdle /\ BorderIdle /\ SurfaceIdle /\ BitmapIdle /\ ConvertIdle

SpecCodec == InitCodec /\ [][CodecNext]_vars

(***************************************************************************)
(* Claims about the chunk encoding.                                        *)
(***************************************************************************)

\* C4: for every chunk, from_bytes(to_bytes(chunk)) has the pixel data of the
\* chunk: encoding the pixels as nibble runs in Hilbert order and decoding
\* them is the identity.
C4_RoundTrip ==
    /\ cpc = "decoded" => cdecoded = cdata
    /\ cpc \in {"chunk", "encoded", "decoded"} => from_bytes(to_bytes(cdata)) = cdata

\* A chunk written to after its generation was encoded with a run that hit
\* the cap of MAX_COUNT pixels and went on in the next tuple, and was decoded.
C4_Witness ==
    /\ cpc = "decoded"
    /\ csets = MaxSets
    /\ cdecoded = cdata
    /\ cdata # ChunkZero
    /\ \E i \in 1..(Len(cbytes) - 1) :
          /\ cbytes[i] % MAX_COUNT = MAX_COUNT - 1
          /\ HighNibble(cbytes[i + 1]) = HighNibble(cbytes[i])
    /\ \E i \in 1..Len(cbytes) : cbytes[i] % MAX_COUNT \notin {0, MAX_COUNT - 1}

\* Every pixel of the chunk has nibble 7.
AllSevens(data) == \A coord \in ChunkCoords : ChunkAt(data, coord) = 7 * 16

\* C23 as stated: to_bytes of a chunk in which every pixel has nibble 7 has
\* one byte for every 16 pixels (256 bytes for the 4096 pixels of a chunk),
\* every byte equals 0x77, and from_bytes of the bytes equals the chunk.
C23_SevensAs0x77 ==
    (cpc \in {"encoded", "decoded"} /\ AllSevens(cdata)) =>
        /\ Len(cbytes) = ChunkPixels \div MAX_COUNT
        /\ \A i \in 1..Len(cbytes) : cbytes[i] = 7 * 16 + 7
        /\ cpc = "decoded" => cdecoded = cdata

\* C23, amended: to_bytes of a chunk in which every pixel has nibble 7 has
\* one byte for every 16 pixels (256 bytes for the 4096 pixels of a chunk),
\* every byte equals 0x7F, nibble 7 with a count_minus_one of 15, and
\* from_bytes of the bytes equals the chunk.
C23_SevensAs0x7F ==
    (cpc \in {"encoded", "decoded"} /\ AllSevens(cdata)) =>
        /\ Len(cbytes) = ChunkPixels \div MAX_COUNT
        /\ \A i \in 1..Len(cbytes) : cbytes[i] = 7 * 16 + (MAX_COUNT - 1)
        /\ cpc = "decoded" => cdecoded = cdata

\* A chunk of sevens was encoded and decoded.
C23_Witness ==
    /\ cpc = "decoded"
    /\ AllSevens(cdata)
    /\ Len(cbytes) > 1
    /\ cdecoded = cdata

(***************************************************************************)
(* Chunk: the updates captured during a tick (common/src/terrain.rs).      *)
(***************************************************************************)

\* enum ChunkUpdate
UpdateNone == [kind |-> "None", payload |-> <<>>]
UpdateCoords(coords) == [kind |-> "Coords", payload |-> coords]
UpdateMods(bytes) == [kind |-> "Mods", payload |-> bytes]
UpdateComplete == [kind |-> "Complete", payload |-> <<>>]

\* struct Chunk
Chunk(data, next_regen, update) == [data |-> data, next_regen |-> next_regen, update |-> update]

\* The delay of a regeneration in ticks; the program draws it from 15 to 25
\* minutes.
RegenDelay == 1

\* Chunk::mark_for_regenerate
mark_for_regenerate(chunk, now) ==
    IF chunk.next_regen = None THEN [chunk EXCEPT !.next_regen = now + RegenDelay] ELSE chunk

\* impl From<Coord> for RelativeCoord
RelativeCoord(coord) == <<coord[1] % CHUNK_SIZE, coord[2] % CHUNK_SIZE>>

\* Chunk::set_capture: the outcome is the chunk, or Panic in the Mods state.
set_capture(chunk, coord, value, now) ==
    LET marked == mark_for_regenerate([chunk EXCEPT !.data = ChunkSet(@, coord, value)], now) IN
    CASE chunk.update.kind = "None" ->
            [marked EXCEPT !.update = UpdateCoords(<<RelativeCoord(coord)>>)]
      [] chunk.update.kind = "Coords" ->
            [marked EXCEPT !.update = UpdateCoords(Append(@.payload, RelativeCoord(coord)))]
      [] chunk.update.kind = "Mods" -> Panic
      [] chunk.update.kind = "Complete" -> marked

\* The four cells a coordinate stands for in updated_rects.
RectOffsets == {<<0, 0>>, <<1, 0>>, <<0, 1>>, <<1, 1>>}

\* updated_rects: mask[c.0][c.1] = true for every coord + offset.
RectMask(coords) ==
    [x \in 0..CHUNK_SIZE |-> [y \in 0..CHUNK_SIZE |->
        \E k \in 1..Len(coords), o \in RectOffsets :
            coords[k][1] + o[1] = x /\ coords[k][2] + o[2] = y]]

\* mask[x2][y..=hi].iter().enumerate().take_while(|(_, &v)| v).map(|(i, _)| i).last()
TakeWhileLast(column, y, hi) ==
    LET falses == {k \in y..hi : ~column[k]} IN
    IF falses = {} THEN hi - y
    ELSE IF ~column[y] THEN None
    ELSE (CHOOSE k \in falses : \A j \in falses : k <= j) - y - 1

\* A variant of the fill that leaves the mask as it is.
MaskFillNothing(mask, x2, y, y2) == mask

\* mask[x2][y..=y2].fill(false)
MaskFill(mask, x2, y, y2) ==
    [mask EXCEPT ![x2] = [k \in 0..CHUNK_SIZE |-> IF k >= y /\ k <= y2 THEN FALSE ELSE @[k]]]

\* The rectangle pushed when a run of columns ends, one column too wide.
RectPushedWide(x, y, x2, y2) == <<<<x, y>>, <<x2, y2>>>>

\* The rectangle pushed when a run of columns ends before column x2.
RectPushed(x, y, x2, y2) == <<<<x, y>>, <<x2 - 1, y2>>>>

\* updated_rects: for x2 in x..=(CHUNK_SIZE + 1), from a set cell (x, y). The
\* outcome is the mask, the rectangles and the y the scan goes on from.
RECURSIVE MeshExtend(_, _, _, _, _)
MeshExtend(acc, x, y, x2, maybe_y2) ==
    LET i == IF x2 <= CHUNK_SIZE
             THEN TakeWhileLast(acc.mask[x2], y, IF maybe_y2 = None THEN CHUNK_SIZE ELSE maybe_y2)
             ELSE None
    IN  IF maybe_y2 # None
        THEN IF (IF i = None THEN None ELSE i + y) # maybe_y2
             THEN [mask |-> acc.mask,
                   rects |-> Append(acc.rects, RectPushed(x, y, x2, maybe_y2)),
                   y |-> maybe_y2]
             ELSE MeshExtend([acc EXCEPT !.mask = MaskFill(@, x2, y, y + i)], x, y, x2 + 1, maybe_y2)
        ELSE IF i # None
             THEN MeshExtend([acc EXCEPT !.mask = MaskFill(@, x2, y, y + i)], x, y, x2 + 1, i + y)
             ELSE [acc EXCEPT !.y = y]

\* updated_rects: while y <= CHUNK_SIZE, in column x.
RECURSIVE MeshColumn(_, _)
MeshColumn(acc, x) ==
    IF acc.y > CHUNK_SIZE THEN acc
    ELSE IF acc.mask[x][acc.y]
         THEN LET r == MeshExtend(acc, x, acc.y, x, None) IN
              MeshColumn([r EXCEPT !.y = @ + 1], x)
         ELSE MeshColumn([acc EXCEPT !.y = @ + 1], x)

\* updated_rects: for x in 0..=CHUNK_SIZE
RECURSIVE MeshColumns(_, _)
MeshColumns(acc, x) ==
    IF x > CHUNK_SIZE THEN acc.rects
    ELSE MeshColumns(MeshColumn([acc EXCEPT !.y = 0], x), x + 1)

\* Chunk::updated_rects
updated_rects(chunk) ==
    CASE chunk.update.kind = "Coords" ->
            MeshColumns([mask |-> RectMask(chunk.update.payload), rects |-> <<>>, y |-> 0], 0)
      [] chunk.update.kind = "Complete" -> <<<<<<0, 0>>, <<CHUNK_SIZE, CHUNK_SIZE>>>>>>
      [] OTHER -> Panic

\* The coordinates and the value of the captured writes.
MaxCaptures == 3
CaptureCoords ==
    {Coord(0, 0), Coord(1, 0), Coord(2, 0), Coord(0, 1), Coord(1, 2), Coord(3, 1),
     Coord(CHUNK_SIZE - 1, 0), Coord(CHUNK_SIZE - 1, CHUNK_SIZE - 1)}
CaptureValues == {240}

\* Chunk::new with the zero generator.
RectInit ==
    /\ rchunk = Chunk(ChunkNew(<<0, 0>>, "zero"), None, UpdateNone)
    /\ rrects = <<>>
    /\ rpc = "capturing"

\* Chunk::set_capture on the chunk.
RectSetCapture(coord, value) ==
    /\ rpc = "capturing"
    /\ Len(rchunk.update.payload) < MaxCaptures
    /\ rchunk' = set_capture(rchunk, coord, value, 0)
    /\ UNCHANGED <<rrects, rpc>>
    /\ UNCHANGED notRectVars

\* Chunk::updated_rects on the chunk, its update being Coords.
RectUpdatedRects ==
    /\ rpc = "capturing"
    /\ rchunk.update.kind = "Coords"
    /\ rrects' = updated_rects(rchunk)
    /\ rpc' = "meshed"
    /\ UNCHANGED rchunk
    /\ UNCHANGED notRectVars

\* Every coordinate of the chunk, by x and then y.
AllChunkCoords ==
    [k \in 1..ChunkPixels |-> <<(k - 1) \div CHUNK_SIZE, (k - 1) % CHUNK_SIZE>>]

\* chunk.update = ChunkUpdate::Coords(coords) with every coordinate of the
\* chunk (tests::updated_rects, l.1466-1469).
RectAllCoords ==
    /\ rpc = "capturing"
    /\ rchunk.update.payload # AllChunkCoords
    /\ rchunk' = [rchunk EXCEPT !.update = UpdateCoords(AllChunkCoords)]
    /\ UNCHANGED <<rrects, rpc>>
    /\ UNCHANGED notRectVars

RectNext ==
    \/ \E coord \in CaptureCoords, value \in CaptureValues : RectSetCapture(coord, value)
    \/ RectAllCoords
    \/ RectUpdatedRects

InitRect == RectInit /\ MutIdle /\ GetIdle /\ CodecIdle /\ TerrainIdle /\ PhysIdle /\ ContactIdle /\ ParticleIdle /\ AltIdle /\ ModifyIdle /\ ApplyIdle /\ DrainIdle /\ AzimuthIdle /\ ArmIdle /\ SyncIdle /\ FatesIdle /\ RegenIdle /\ AimIdle /\ UpdIdle /\ CollideIdle /\ BorderIdle /\ SurfaceIdle /\ BitmapIdle /\ ConvertIdle

SpecRect == InitRect /\ [][RectNext]_vars

(***************************************************************************)
(* Claims about Chunk::updated_rects.                                      *)
(***************************************************************************)

\* The cells of a rectangle, both corners included.
RectCells(rect) == (rect[1][1]..rect[2][1]) \X (rect[1][2]..rect[2][2])

\* The cells of the coordinates of S expanded by (0,0), (1,0), (0,1), (1,1).
ExpandedCells(coords) ==
    {<<coords[k][1] + o[1], coords[k][2] + o[2]>> : k \in 1..Len(coords), o \in RectOffsets}

\* C5: the rectangles of updated_rects cover exactly the cells of the
\* coordinates held in ChunkUpdate::Coords expanded by (0,0), (1,0), (0,1),
\* (1,1): every such cell is in a rectangle, and no rectangle has another cell.
C5_ExactCover ==
    rpc = "meshed" =>
        UNION {RectCells(rrects[k]) : k \in 1..Len(rrects)} = ExpandedCells(rchunk.update.payload)

\* Three captured coordinates whose cells are not one rectangle were meshed
\* into more than one rectangle, one of them wider than a coordinate's cells.
C5_Witness ==
    /\ rpc = "meshed"
    /\ Len(rchunk.update.payload) = 3
    /\ Len(rrects) >= 2
    /\ \E k \in 1..Len(rrects) : rrects[k][2][1] - rrects[k][1][1] >= 2
    /\ UNION {RectCells(rrects[k]) : k \in 1..Len(rrects)} = ExpandedCells(rchunk.update.payload)

\* C24: when the edited coordinates are all pixels of a chunk,
\* updated_rects yields exactly one rectangle, from (0, 0) to
\* (CHUNK_SIZE, CHUNK_SIZE) inclusive.
C24_WholeChunkOneRect ==
    (rpc = "meshed" /\ {rchunk.update.payload[k] : k \in 1..Len(rchunk.update.payload)} = ChunkCoords) =>
        rrects = << <<<<0, 0>>, <<CHUNK_SIZE, CHUNK_SIZE>>>> >>

\* The update of every coordinate of the chunk was meshed.
C24_Witness ==
    /\ rpc = "meshed"
    /\ rchunk.update = UpdateCoords(AllChunkCoords)
    /\ Len(rrects) = 1

(***************************************************************************)
(* Terrain on the server: writes, pre_update, broadcast, post_update       *)
(* (common/src/terrain.rs).                                                *)
(***************************************************************************)

\* size_of::<Mod>()
ModSize == 2

\* The byte budget of calculate_mods; the program has 1600.
MAX_BYTES == 4

\* Mod::new: x << 10 | y << 4 | (value >> 4), as a u16
ModNew(coord, value) == (coord[1] * 1024 + coord[2] * 16 + HighNibble(value)) % 65536

\* Mod::to_bytes: u16::to_le_bytes
ModToBytes(data) == <<data % 256, data \div 256>>

\* The derived Ord of RelativeCoord: by x, then by y.
CoordLess(a, b) == a[1] < b[1] \/ (a[1] = b[1] /\ a[2] < b[2])

RECURSIVE SortedCoords(_)
SortedCoords(S) ==
    IF S = {} THEN <<>>
    ELSE LET least == CHOOSE a \in S : \A b \in S : a = b \/ CoordLess(a, b) IN
         <<least>> \o SortedCoords(S \ {least})

\* coords.sort_unstable(); coords.dedup()
SortDedup(coords) == SortedCoords({coords[k] : k \in 1..Len(coords)})

\* The bytes of the Mods of the coordinates, in order.
RECURSIVE ModBytes(_, _)
ModBytes(data, coords) ==
    IF coords = <<>> THEN <<>>
    ELSE ModToBytes(ModNew(Head(coords), ChunkAt(data, Head(coords)))) \o ModBytes(data, Tail(coords))

\* Chunk::calculate_mods with the budget compared by <=.
calculate_mods_inclusive(chunk) ==
    CASE chunk.update.kind = "Coords" ->
            LET coords == SortDedup(chunk.update.payload) IN
            IF Len(coords) * ModSize <= MAX_BYTES
            THEN [chunk EXCEPT !.update = UpdateMods(ModBytes(chunk.data, coords))]
            ELSE [chunk EXCEPT !.update = UpdateComplete]
      [] chunk.update.kind = "Mods" -> Panic
      [] OTHER -> chunk

\* Chunk::calculate_mods
calculate_mods(chunk) ==
    CASE chunk.update.kind = "None" -> chunk
      [] chunk.update.kind = "Complete" -> chunk
      [] chunk.update.kind = "Coords" ->
            LET coords == SortDedup(chunk.update.payload) IN
            IF Len(coords) * ModSize < MAX_BYTES
            THEN [chunk EXCEPT !.update = UpdateMods(ModBytes(chunk.data, coords))]
            ELSE [chunk EXCEPT !.update = UpdateComplete]
      [] chunk.update.kind = "Mods" -> Panic

\* Chunk::regenerate, one pixel: a step of one nibble toward the generator's
\* value; acc is the data and whether the regeneration is incomplete.
RegeneratePixel(acc, g, offset, x, y) ==
    LET height == ChunkAt(acc.data, Coord(x, y))
        original_height == HighNibble(Generate(g, x + offset[1], y + offset[2])) * 16
        new_height == IF original_height < height THEN height - 16 ELSE height + 16
    IN  IF original_height = height THEN acc
        ELSE [data |-> ChunkSet(acc.data, Coord(x, y), new_height),
              incomplete |-> acc.incomplete \/ new_height # original_height]

RECURSIVE RegenerateRow(_, _, _, _, _)
RegenerateRow(acc, g, offset, y, x) ==
    IF x = CHUNK_SIZE \/ DOMAIN acc.data = {} THEN acc
    ELSE RegenerateRow(RegeneratePixel(acc, g, offset, x, y), g, offset, y, x + 1)

RECURSIVE RegenerateFrom(_, _, _, _)
RegenerateFrom(acc, g, offset, y) ==
    IF y = CHUNK_SIZE \/ DOMAIN acc.data = {} THEN acc
    ELSE RegenerateFrom(RegenerateRow(acc, g, offset, y, 0), g, offset, y + 1)

\* A regeneration that never schedules the next one.
regenerate_once(chunk, chunk_id, g, now) ==
    LET r == RegenerateFrom([data |-> chunk.data, incomplete |-> FALSE], g, as_coord(chunk_id), 0)
    IN  [chunk EXCEPT !.data = r.data, !.next_regen = None]

\* Chunk::regenerate
regenerate(chunk, chunk_id, g, now) ==
    LET r == RegenerateFrom([data |-> chunk.data, incomplete |-> FALSE], g, as_coord(chunk_id), 0)
        done == [chunk EXCEPT !.data = r.data, !.next_regen = None]
    IN  IF r.incomplete THEN mark_for_regenerate(done, now) ELSE done

\* struct SerializedChunk
SerializedChunk(is_update, bytes) == [is_update |-> is_update, bytes |-> bytes]

\* Chunk::to_serialized_chunk; the debug assertions of a debug build panic.
to_serialized_chunk(chunk, should_update, debug) ==
    IF should_update /\ chunk.update.kind = "Mods"
    THEN SerializedChunk(TRUE, chunk.update.payload)
    ELSE IF should_update /\ debug /\ chunk.update.kind \in {"None", "Coords"}
    THEN Panic
    ELSE SerializedChunk(FALSE, to_bytes(chunk.data))

\* The chunks of the model's Terrain (the program has SIZE_CHUNKS squared).
\* The side of the terrain in chunks (SIZE / CHUNK_SIZE, far larger in the
\* program).
SIZE_CHUNKS == 2

\* The side of the terrain in pixels.
SIZE == SIZE_CHUNKS * CHUNK_SIZE

\* The offset between signed and unsigned coordinates.
OFFSET == SIZE \div 2

TerrainChunkIds == (0..(SIZE_CHUNKS - 1)) \X (0..(SIZE_CHUNKS - 1))

\* Option<Box<Chunk>>::None
NoChunk == [allocated |-> FALSE]

\* ChunkSet::new, ChunkSet::add
ChunkSetNew == {}
ChunkSetAdd(set, chunk_id) == set \cup {chunk_id}

\* Terrain::with_generator
Terrain(generator) ==
    [chunks |-> [id \in TerrainChunkIds |-> NoChunk],
     updated |-> ChunkSetNew,
     generator |-> generator]

\* Terrain::mut_chunk and Terrain::get_chunk of one thread: the Terrain with
\* the chunk generated if it was not.
mut_chunk(t, chunk_id) ==
    IF t.chunks[chunk_id] = NoChunk
    THEN [t EXCEPT !.chunks[chunk_id] = Chunk(ChunkNew(chunk_id, t.generator), None, UpdateNone)]
    ELSE t

\* Terrain::set that does not add the chunk to `updated`.
TerrainSetUnrecorded(t, coord, value, now) ==
    LET chunk_id == from_coord(coord)
        t1 == mut_chunk(t, chunk_id)
        chunk == t1.chunks[chunk_id]
    IN  IF ChunkAt(chunk.data, coord) # HighNibble(value) * 16
        THEN LET captured == set_capture(chunk, coord, value, now) IN
             IF captured = Panic THEN Panic
             ELSE [terrain |-> [t1 EXCEPT !.chunks[chunk_id] = captured], changed |-> TRUE]
        ELSE [terrain |-> t1, changed |-> FALSE]

\* Terrain::set: the Terrain afterwards and whether the data changed.
TerrainSet(t, coord, value, now) ==
    LET chunk_id == from_coord(coord)
        t1 == mut_chunk(t, chunk_id)
        chunk == t1.chunks[chunk_id]
    IN  IF ChunkAt(chunk.data, coord) # HighNibble(value) * 16
        THEN LET captured == set_capture(chunk, coord, value, now) IN
             IF captured = Panic THEN Panic
             ELSE [terrain |-> [t1 EXCEPT !.chunks[chunk_id] = captured,
                                          !.updated = ChunkSetAdd(@, chunk_id)],
                   changed |-> TRUE]
        ELSE [terrain |-> t1, changed |-> FALSE]

Allocated(t) == {id \in TerrainChunkIds : t.chunks[id] # NoChunk}

\* Terrain::pre_update: calculate_mods on every allocated chunk.
pre_update(t) ==
    LET mods == [id \in TerrainChunkIds |->
                    IF t.chunks[id] = NoChunk THEN NoChunk ELSE calculate_mods(t.chunks[id])]
    IN  IF \E id \in TerrainChunkIds : mods[id] = Panic THEN Panic
        ELSE [t EXCEPT !.chunks = mods]

\* Terrain::post_update: the chunks it regenerates.
RegenerationDue(t, now) ==
    {id \in Allocated(t) : t.chunks[id].next_regen # None /\ now >= t.chunks[id].next_regen}

\* post_update that regenerates without marking the chunk as updated.
post_update_silent(t, now) ==
    [t EXCEPT
        !.updated = ChunkSetNew,
        !.chunks = [id \in TerrainChunkIds |->
            IF t.chunks[id] = NoChunk THEN NoChunk
            ELSE IF id \in RegenerationDue(t, now)
            THEN [regenerate(t.chunks[id], id, t.generator, now) EXCEPT !.update = UpdateNone]
            ELSE [t.chunks[id] EXCEPT !.update = UpdateNone]]]

\* Terrain::post_update
post_update(t, now) ==
    [t EXCEPT
        !.updated = {id \in TerrainChunkIds : id \in RegenerationDue(t, now)},
        !.chunks = [id \in TerrainChunkIds |->
            IF t.chunks[id] = NoChunk THEN NoChunk
            ELSE IF id \in RegenerationDue(t, now)
            THEN [regenerate(t.chunks[id], id, t.generator, now) EXCEPT !.update = UpdateComplete]
            ELSE [t.chunks[id] EXCEPT !.update = UpdateNone]]]

\* The writes of a tick, the ticks, and what is written.
MaxWrites == 3
MaxTicks == 2
TerrainGenerators == {"zero", "full"}
TerrainCoords == {Coord(0, 0), Coord(1, 0), Coord(CHUNK_SIZE, 1)}
TerrainValues == {0, 16}

\* The chunks of which the pixels differ between two Terrains, the pixels of
\* a chunk not yet generated being those its generation gives.
PixelsChanged(old, new) ==
    {id \in Allocated(new) : mut_chunk(old, id).chunks[id].data # new.chunks[id].data}

TerrainInit ==
    /\ \E g \in TerrainGenerators : terrain = Terrain(g)
    /\ tnow = 0
    /\ tphase = "write"
    /\ twrites = 0
    /\ tsent = <<>>
    /\ tchanged = {}
    /\ tregenerated = {}
    /\ tpanic = FALSE

\* Terrain::at during the tick: get_chunk generates the chunk if needed.
TerrainAt(coord) ==
    /\ tphase = "write"
    /\ ~tpanic
    /\ tnow < MaxTicks
    /\ terrain.chunks[from_coord(coord)] = NoChunk
    /\ terrain' = mut_chunk(terrain, from_coord(coord))
    /\ UNCHANGED <<tnow, tphase, twrites, tsent, tchanged, tregenerated, tpanic>>
    /\ UNCHANGED notTerrainVars

\* Terrain::set during the tick (a pixel written by Terrain::modify).
TerrainWrite(coord, value) ==
    /\ tphase = "write"
    /\ ~tpanic
    /\ tnow < MaxTicks
    /\ twrites < MaxWrites
    /\ LET r == TerrainSet(terrain, coord, value, tnow) IN
       IF r = Panic
       THEN /\ tpanic' = TRUE
            /\ UNCHANGED <<terrain, tchanged>>
       ELSE /\ terrain' = r.terrain
            /\ tchanged' = tchanged \cup PixelsChanged(terrain, r.terrain)
            /\ UNCHANGED tpanic
    /\ twrites' = twrites + 1
    /\ UNCHANGED <<tnow, tphase, tsent, tregenerated>>
    /\ UNCHANGED notTerrainVars

\* Terrain::pre_update, once the writes of the tick are done.
TerrainPreUpdate ==
    /\ tphase = "write"
    /\ ~tpanic
    /\ tnow < MaxTicks
    /\ LET r == pre_update(terrain) IN
       IF r = Panic
       THEN tpanic' = TRUE /\ UNCHANGED terrain
       ELSE terrain' = r /\ UNCHANGED tpanic
    /\ tphase' = "pre_updated"
    /\ UNCHANGED <<tnow, twrites, tsent, tchanged, tregenerated>>
    /\ UNCHANGED notTerrainVars

\* The broadcast to the clients: to_serialized_chunk of every updated chunk,
\* in a build with or without debug assertions.
TerrainBroadcast ==
    /\ tphase = "pre_updated"
    /\ ~tpanic
    /\ \E debug \in BOOLEAN :
       LET sent == [id \in terrain.updated |->
                       to_serialized_chunk(terrain.chunks[id], TRUE, debug)]
       IN  IF \E id \in terrain.updated : sent[id] = Panic
           THEN tpanic' = TRUE /\ UNCHANGED tsent
           ELSE tsent' = sent /\ UNCHANGED tpanic
    /\ tphase' = "broadcast"
    /\ UNCHANGED <<terrain, tnow, twrites, tchanged, tregenerated>>
    /\ UNCHANGED notTerrainVars

\* Terrain::post_update, after the broadcast; the next tick begins.
TerrainPostUpdate ==
    /\ tphase = "broadcast"
    /\ ~tpanic
    /\ terrain' = post_update(terrain, tnow)
    /\ tregenerated' = RegenerationDue(terrain, tnow)
    /\ tchanged' = PixelsChanged(terrain, terrain')
    /\ tnow' = tnow + 1
    /\ twrites' = 0
    /\ tphase' = "write"
    /\ UNCHANGED <<tsent, tpanic>>
    /\ UNCHANGED notTerrainVars

TerrainNext ==
    \/ \E coord \in TerrainCoords : TerrainAt(coord)
    \/ \E coord \in TerrainCoords, value \in TerrainValues : TerrainWrite(coord, value)
    \/ TerrainPreUpdate
    \/ TerrainBroadcast
    \/ TerrainPostUpdate

InitTerrain == TerrainInit /\ MutIdle /\ GetIdle /\ CodecIdle /\ RectIdle /\ PhysIdle /\ ContactIdle /\ ParticleIdle /\ AltIdle /\ ModifyIdle /\ ApplyIdle /\ DrainIdle /\ AzimuthIdle /\ ArmIdle /\ SyncIdle /\ FatesIdle /\ RegenIdle /\ AimIdle /\ UpdIdle /\ CollideIdle /\ BorderIdle /\ SurfaceIdle /\ BitmapIdle /\ ConvertIdle

SpecTerrain == InitTerrain /\ [][TerrainNext]_vars

(***************************************************************************)
(* Claims about the Terrain's tick.                                        *)
(***************************************************************************)

\* The ChunkUpdate of a chunk, a chunk not yet generated having none.
UpdateKind(t, id) == IF t.chunks[id] = NoChunk THEN "None" ELSE t.chunks[id].update.kind

\* The steps of a ChunkUpdate that go forward within a tick.
ForwardUpdates ==
    {<<"None", "None">>, <<"None", "Coords">>, <<"Coords", "Coords">>, <<"Coords", "Mods">>,
     <<"Coords", "Complete">>, <<"Mods", "Mods">>, <<"Complete", "Complete">>}

\* The number of distinct coordinates a chunk holds in ChunkUpdate::Coords.
DistinctCoords(t, id) ==
    Cardinality({t.chunks[id].update.payload[k] : k \in 1..Len(t.chunks[id].update.payload)})

\* C9: in a tick of terrain writes, pre_update, broadcast and post_update,
\* the ChunkUpdate of every chunk only goes forward, None to Coords to Mods or
\* to Complete; pre_update turns Coords into Mods when twice the number of
\* distinct coordinates is below the byte budget and into Complete otherwise;
\* no chunk is in Coords at the broadcast; set_capture is never reached in
\* Mods (no call panics); post_update resets every chunk to None except the
\* chunks it regenerates, which become Complete.
C9_UpdateLifecycle ==
    [][/\ ~tpanic'
       /\ \A id \in TerrainChunkIds :
            /\ (tphase = "broadcast" /\ tphase' = "write")
                  => /\ terrain'.chunks[id] # NoChunk /\ id \in tregenerated'
                        => UpdateKind(terrain', id) = "Complete"
                     /\ id \notin tregenerated' => UpdateKind(terrain', id) = "None"
            /\ ~(tphase = "broadcast" /\ tphase' = "write")
                  => <<UpdateKind(terrain, id), UpdateKind(terrain', id)>> \in ForwardUpdates
            /\ (tphase = "write" /\ tphase' = "pre_updated")
                  => IF UpdateKind(terrain, id) = "Coords"
                     THEN UpdateKind(terrain', id) =
                            IF DistinctCoords(terrain, id) * 2 < MAX_BYTES THEN "Mods" ELSE "Complete"
                     ELSE UpdateKind(terrain', id) = UpdateKind(terrain, id)
            /\ tphase' = "broadcast" => UpdateKind(terrain', id) # "Coords"
      ]_vars

\* A post_update left a regenerated chunk Complete and reset to None a chunk
\* that was broadcast as Mods, in a tick whose broadcast also sent a whole
\* chunk for a chunk over the byte budget.
C9_Witness ==
    /\ tphase = "write"
    /\ tnow > 0
    /\ ~tpanic
    /\ \E a, b \in Allocated(terrain) :
          /\ a \in tregenerated /\ UpdateKind(terrain, a) = "Complete"
          /\ b \notin tregenerated /\ UpdateKind(terrain, b) = "None"
          /\ a \in DOMAIN tsent /\ ~tsent[a].is_update
          /\ b \in DOMAIN tsent /\ tsent[b].is_update

\* C10: at every point of the tick, Terrain.updated holds exactly the chunks
\* of which a pixel changed since the last broadcast, the chunks that
\* post_update regenerated included.
C10_UpdatedExact == tphase # "idle" => terrain.updated = tchanged

\* The half of C10 that holds: no chunk with a changed pixel is missing.
C10_NoChangeMissed == tphase # "idle" => tchanged \subseteq terrain.updated

(***************************************************************************)
(* World::physics (server/src/world_physics.rs): the per-entity step, the  *)
(* border and area handling and the fates.  Positions are on an integer    *)
(* lattice whose unit is the distance covered at 5 m/s in one tick, a      *)
(* velocity is a number of units per tick along the entity's direction,    *)
(* and a product that the program rounds to a float is rounded toward zero *)
(* onto the lattice.  The catalog of entity data, Transform, Entity and    *)
(* common::world are not part of the sources at hand: they follow the      *)
(* specification.                                                          *)
(***************************************************************************)

NumEntities == 2
MinRadius == 2
MaxRadius == 3
ARCTIC == 1             \* common::world::ARCTIC, on the lattice
HqLifespan == 2         \* EntityData.lifespan of an Hq, in ticks
TorpedoLifespan == 3    \* EntityData.lifespan of a torpedo, in ticks
MaxHealth == 4          \* EntityData::max_health of the boat, in ticks of damage
BorderKillTicks == 2    \* Ticks::from_secs(1.0)
TerrainKillTicks == 8   \* Ticks::from_secs(4.0)
TerrainSpeed == 1       \* Velocity::from_mps(5.0)
BorderSpeed == 2        \* Velocity::from_mps(10.0 * ...)

EntityIndices == 1..NumEntities

NoEntity == [entity_type |-> "None"]

\* Entity: the fields of an entity that physics reads and writes.  ticks is
\* the age of an entity that has a lifespan and the damage of a boat.
Entity(entity_type, position, direction, velocity, ticks) ==
    [entity_type |-> entity_type, position |-> position, direction |-> direction,
     velocity |-> velocity, ticks |-> ticks]

\* EntityData.kind of the entity types of the model.
Kind(entity_type) ==
    CASE entity_type \in {"Boat", "Cruiser", "Carrier"} -> "Boat"
      [] entity_type = "Torpedo" -> "Weapon"
      [] entity_type \in {"Hq", "OilPlatform"} -> "Obstacle"

\* EntityData.lifespan.
Lifespan(entity_type) ==
    CASE entity_type = "Hq" -> HqLifespan
      [] entity_type = "Torpedo" -> TorpedoLifespan
      [] OTHER -> 0

\* EntityData::is_land_based: only trees, of which the model has none.
is_land_based(entity_type) == FALSE

\* Whether the entity belongs to a player (entity.player.is_some()).
HasPlayer(entity_type) == entity_type \in {"Boat", "Cruiser", "Carrier", "Torpedo"}

LengthSquared(p) == p[1] * p[1] + p[2] * p[2]

Dot(p, q) == p[1] * q[1] + p[2] * q[2]

\* c * r / sqrt(len2) rounded toward zero, for |c| <= sqrt(len2).
ScaleMagnitude(c, r, len2) ==
    CHOOSE k \in 0..r : /\ k * k * len2 <= c * c * r * r
                        /\ (k + 1) * (k + 1) * len2 > c * c * r * r

Scale(c, r, len2) == IF c < 0 THEN -ScaleMagnitude(-c, r, len2) ELSE ScaleMagnitude(c, r, len2)

\* A variant that leaves the position where it is.
SnapToBorderStays(position, border_radius) == position

\* position.normalize() * border_radius.
SnapToBorder(position, border_radius) ==
    <<Scale(position[1], border_radius, LengthSquared(position)),
      Scale(position[2], border_radius, LengthSquared(position))>>

\* Transform::do_kinematics: the entity advances along its direction.
do_kinematics(e, delta) ==
    [e EXCEPT !.position = <<e.position[1] + e.direction[1] * e.velocity * delta,
                             e.position[2] + e.direction[2] * e.velocity * delta>>]

\* Entity::kill_in: damage at the rate that kills a healthy boat in `time`;
\* true when the boat is dead.
kill_in(e, delta, time) ==
    LET damage == e.ticks + Max(1, (delta * MaxHealth) \div time)
    IN  [entity |-> [e EXCEPT !.ticks = Min(damage, MaxHealth)], dead |-> damage >= MaxHealth]

\* common::world::outside_area: boats are kept out of the arctic.
outside_area(entity_type, position) == Kind(entity_type) = "Boat" /\ position[2] > ARCTIC

\* common::world::clamp_y_to_area_border.
clamp_y_to_area_border(entity_type, y) == IF Kind(entity_type) = "Boat" THEN Min(y, ARCTIC) ELSE y

\* common::world::area_border_normal.
area_border_normal(entity_type) == <<0, -1>>

Fate(entity, fate) == [entity |-> entity, fate |-> fate]

\* EntityData.length of the boats of the model, in meters.
Length(entity_type) ==
    CASE entity_type = "Carrier" -> 250
      [] entity_type = "Cruiser" -> 150
      [] OTHER -> 50

\* A variant of the repair amount with which a boat is not repaired.
repair_amount_none(entity_type) == 0

\* The repair amount of a boat by its length (l.361-367).
repair_amount(entity_type) ==
    IF Length(entity_type) > 200 THEN 3
    ELSE IF Length(entity_type) > 100 THEN 2
    ELSE 1

\* The border test of the step (l.320-321).
outside_border(position, border_radius) == LengthSquared(position) > border_radius * border_radius

\* Lines 320-351 and what follows them: the border and area handling of an
\* entity that reached the end of its step, then the boat's repair.
BorderAndArea(e, border_radius, delta, repair_eligible, moved) ==
    LET ob == outside_border(e.position, border_radius)
        oa == outside_area(e.entity_type, e.position)
        k == IF Kind(e.entity_type) = "Boat" THEN kill_in(e, delta, BorderKillTicks)
             ELSE [entity |-> e, dead |-> TRUE]
        snapped == IF ob THEN SnapToBorder(e.position, border_radius) ELSE e.position
        clamped == IF oa THEN <<snapped[1], clamp_y_to_area_border(e.entity_type, snapped[2])>>
                   ELSE snapped
        normal == IF oa THEN area_border_normal(e.entity_type)
                  ELSE <<-snapped[1], -snapped[2]>>
        velocity == IF oa THEN BorderSpeed * Dot(normal, e.direction)
                    ELSE Scale(Dot(normal, e.direction), BorderSpeed, LengthSquared(snapped))
        handled == [k.entity EXCEPT !.position = clamped, !.velocity = velocity]
        repaired == IF Kind(e.entity_type) = "Boat" /\ repair_eligible
                    THEN [e EXCEPT !.ticks = TicksSaturatingSub(@, delta * repair_amount(e.entity_type))]
                    ELSE e
    IN  IF ob \/ oa
        THEN IF k.dead THEN Fate(handled, "Remove") ELSE Fate(handled, "MoveSector")
        ELSE Fate(repaired, IF moved THEN "MoveSector" ELSE "None")

\* Lines 226-318: guidance and kinematics, then the collision with terrain.
\* collision is whether collides_with_terrain found a collision.
MoveAndCollide(e, border_radius, delta, collision) ==
    LET m == do_kinematics(e, delta)
        moved == m.position # e.position
    IN  IF collision # is_land_based(m.entity_type)
        THEN IF Kind(m.entity_type) # "Boat"
             THEN Fate(m, "Remove")
             ELSE LET slowed == [m EXCEPT !.velocity = ClampMagnitude(@, TerrainSpeed)]
                      k == kill_in(slowed, delta, TerrainKillTicks)
                  IN  IF k.dead THEN Fate(k.entity, "Remove")
                      ELSE BorderAndArea(k.entity, border_radius, delta, FALSE, moved)
        ELSE BorderAndArea(m, border_radius, delta, TRUE, moved)

\* The closure of par_iter_mut().filter_map (l.70-385) for one entity.
\* left_game is the flag of the entity's player.
PhysicsEntity(e, border_radius, delta, left_game, collision) ==
    LET lifespan == Lifespan(e.entity_type)
        aged == IF lifespan # 0 THEN [e EXCEPT !.ticks = TicksSaturatingAdd(@, delta)] ELSE e
        expired == lifespan # 0 /\ aged.ticks > lifespan
    IN  IF expired /\ e.entity_type = "Hq" /\ ~(e.position[2] > ARCTIC)
        THEN Fate(aged, "DowngradeHq")
        ELSE IF expired /\ e.entity_type # "Hq"
        THEN Fate(aged, "Remove")
        ELSE IF HasPlayer(e.entity_type) /\ left_game
        THEN Fate(aged, "Remove")
        ELSE MoveAndCollide(IF expired THEN [aged EXCEPT !.ticks = 0] ELSE aged,
                            border_radius, delta, collision)

\* The application of a fate (l.431-481).
ApplyFate(f) ==
    CASE f.fate = "Remove" -> NoEntity
      [] f.fate = "DowngradeHq" -> [f.entity EXCEPT !.ticks = 0, !.entity_type = "OilPlatform"]
      [] OTHER -> f.entity

\* The entities a world starts with, inside of the widest border.
EntityPool ==
    { Entity("Boat", <<2, 0>>, <<1, 0>>, 1, 0),
      Entity("Boat", <<2, 1>>, <<0, 1>>, 2, 0),
      Entity("Boat", <<-2, -2>>, <<-1, 0>>, 1, 0),
      Entity("Torpedo", <<1, 1>>, <<1, 0>>, 1, 0),
      Entity("Torpedo", <<0, -1>>, <<0, -1>>, 2, 1),
      Entity("Hq", <<2, -2>>, <<1, 0>>, 0, 0),
      Entity("Hq", <<0, 3>>, <<1, 0>>, 0, 0),
      Entity("OilPlatform", <<-3, 0>>, <<1, 0>>, 0, 0),
      Entity("OilPlatform", <<1, 0>>, <<1, 0>>, 0, 0) }

PhysInit ==
    /\ entities \in [EntityIndices -> EntityPool \cup {NoEntity}]
    /\ radius = MaxRadius
    /\ pphase = "physics"
    /\ pfates = [i \in EntityIndices |-> "None"]

\* World::physics(delta), one tick long.  The limited reloads, the terrain
\* mutations and the reset of the flags touch no entity's position; the
\* barrels and the loot enter the world through World::spawn_static and
\* World::spawn_here_or_nearby, which place or reject them, and are not among
\* the entities of the call.
Physics ==
    /\ pphase = "physics"
    /\ \E left_game, collision \in SUBSET EntityIndices :
          LET fates == [i \in EntityIndices |->
                          IF entities[i] = NoEntity THEN Fate(NoEntity, "None")
                          ELSE PhysicsEntity(entities[i], radius, 1,
                                             i \in left_game, i \in collision)]
          IN  /\ entities' = [i \in EntityIndices |-> ApplyFate(fates[i])]
              /\ pfates' = [i \in EntityIndices |-> fates[i].fate]
    /\ pphase' = "radius"
    /\ UNCHANGED radius
    /\ UNCHANGED notPhysVars

\* World::physics_radius: the radius follows the number of players by at most
\* one unit a tick.
PhysicsRadius ==
    /\ pphase = "radius"
    /\ \E r \in {radius - 1, radius, radius + 1} :
          /\ r \in MinRadius..MaxRadius
          /\ radius' = r
    /\ pphase' = "physics"
    /\ UNCHANGED <<entities, pfates>>
    /\ UNCHANGED notPhysVars

PhysNext ==
    \/ Physics
    \/ PhysicsRadius

InitPhys == PhysInit /\ MutIdle /\ GetIdle /\ CodecIdle /\ RectIdle /\ TerrainIdle /\ ContactIdle /\ ParticleIdle /\ AltIdle /\ ModifyIdle /\ ApplyIdle /\ DrainIdle /\ AzimuthIdle /\ ArmIdle /\ SyncIdle /\ FatesIdle /\ RegenIdle /\ AimIdle /\ UpdIdle /\ CollideIdle /\ BorderIdle /\ SurfaceIdle /\ BitmapIdle /\ ConvertIdle

SpecPhys == InitPhys /\ [][PhysNext]_vars

(***************************************************************************)
(* Claims about World::physics.                                            *)
(***************************************************************************)

\* The entities of the world.
InWorld == {i \in EntityIndices : entities[i] # NoEntity}

\* C6: after World::physics returned, every entity still in the world has a
\* position whose magnitude is at most the world radius that the call used.
C6_WithinRadius ==
    pphase = "radius" =>
        \A i \in InWorld : LengthSquared(entities[i].position) <= radius * radius

\* What holds instead: after World::physics returned, an entity that is
\* outside of the border is an Hq that the call downgraded.
C6_OutsideOnlyDowngraded ==
    pphase = "radius" =>
        \A i \in InWorld :
            LengthSquared(entities[i].position) > radius * radius => pfates[i] = "DowngradeHq"

\* A boat that physics found outside of the border is on it afterwards.
C6_BoatSnapped ==
    /\ pphase = "radius"
    /\ \E i \in InWorld :
          /\ entities[i].entity_type = "Boat"
          /\ entities[i].ticks > 0
          /\ LengthSquared(entities[i].position) <= radius * radius
          /\ LengthSquared(entities[i].position) > (radius - 1) * (radius - 1)
          /\ pfates[i] = "MoveSector"


(***************************************************************************)
(* tests::repair_rate (world_physics.rs l.502-580): boats that were        *)
(* spawned in open water with damage one tick short of their maximum       *)
(* health, and the loop physics, physics_radius, spawn_statics.  The       *)
(* terrain is all zero: nothing collides with it.  World::spawn_here_or_   *)
(* nearby, physics_radius and spawn_statics are not part of the sources at *)
(* hand; a boat is spawned at rest, within the smallest border and within  *)
(* its area.                                                               *)
(***************************************************************************)

BoatTypes == {"Boat", "Cruiser", "Carrier"}

\* Where a boat is spawned.
SpawnPositions == { <<0, 0>>, <<1, 1>>, <<-2, 0>> }

\* Entity::new and entity.damage(max_health - Ticks::ONE), then the spawn.
DamagedBoats ==
    { Entity(t, p, <<1, 0>>, 0, MaxHealth - 1) : t \in BoatTypes, p \in SpawnPositions }

RepairInit ==
    /\ entities \in [EntityIndices -> DamagedBoats \cup {NoEntity}]
    /\ radius = MaxRadius
    /\ pphase = "physics"
    /\ pfates = [i \in EntityIndices |-> "None"]

\* world.physics(Ticks::ONE): no player left and nothing collides.
RepairPhysics ==
    /\ pphase = "physics"
    /\ LET fates == [i \in EntityIndices |->
                       IF entities[i] = NoEntity THEN Fate(NoEntity, "None")
                       ELSE PhysicsEntity(entities[i], radius, 1, FALSE, FALSE)]
       IN  /\ entities' = [i \in EntityIndices |-> ApplyFate(fates[i])]
           /\ pfates' = [i \in EntityIndices |-> fates[i].fate]
    /\ pphase' = "radius"
    /\ UNCHANGED radius
    /\ UNCHANGED notPhysVars

\* world.physics_radius(Ticks::ONE).
RepairRadius ==
    /\ pphase = "radius"
    /\ \E r \in {radius - 1, radius, radius + 1} :
          /\ r \in MinRadius..MaxRadius
          /\ radius' = r
    /\ pphase' = "statics"
    /\ UNCHANGED <<entities, pfates>>
    /\ UNCHANGED notPhysVars

\* world.spawn_statics(Ticks::ONE): an obstacle may take a free place.
RepairStatics ==
    /\ pphase = "statics"
    /\ \/ UNCHANGED entities
       \/ \E i \in EntityIndices :
             /\ entities[i] = NoEntity
             /\ entities' = [entities EXCEPT ![i] = Entity("OilPlatform", <<-1, -1>>, <<1, 0>>, 0, 0)]
    /\ pphase' = "physics"
    /\ UNCHANGED <<radius, pfates>>
    /\ UNCHANGED notPhysVars

RepairNext ==
    \/ RepairPhysics
    \/ RepairRadius
    \/ RepairStatics

InitRepair == RepairInit /\ MutIdle /\ GetIdle /\ CodecIdle /\ RectIdle /\ TerrainIdle /\ ContactIdle /\ ParticleIdle /\ AltIdle /\ ModifyIdle /\ ApplyIdle /\ DrainIdle /\ AzimuthIdle /\ ArmIdle /\ SyncIdle /\ FatesIdle /\ RegenIdle /\ AimIdle /\ UpdIdle /\ CollideIdle /\ BorderIdle /\ SurfaceIdle /\ BitmapIdle /\ ConvertIdle

\* The loop of the test does not stop before every boat is repaired.
SpecRepair ==
    InitRepair /\ [][RepairNext]_vars
        /\ WF_vars(RepairPhysics) /\ WF_vars(RepairRadius) /\ WF_vars(RepairStatics)

\* C18: a boat spawned in open water on all-zero terrain with damage one tick
\* short of its maximum health, advanced by physics, physics_radius and
\* spawn_statics only, is never removed, never changes its entity type, and
\* eventually has no damage left.
C18_RepairedEventually ==
    /\ [][\A i \in EntityIndices :
             entities[i].entity_type \in BoatTypes =>
                 entities'[i].entity_type = entities[i].entity_type]_vars
    /\ \A i \in EntityIndices : \A t \in BoatTypes :
          (entities[i].entity_type = t) ~> (entities[i].entity_type = t /\ entities[i].ticks = 0)

\* A boat that takes three ticks to repair has no damage left, under the
\* smallest border.
C18_Witness ==
    /\ pphase = "radius"
    /\ radius = MinRadius
    /\ \E i \in EntityIndices :
          /\ entities[i].entity_type = "Boat"
          /\ entities[i].ticks = 0
          /\ pfates[i] = "None"

(***************************************************************************)
(* The client's contacts (client/src/interpolated_contact.rs, keep_alive   *)
(* of common/src/entity.rs).  The loop that applies a server update to the *)
(* contacts is not part of the sources at hand and follows the             *)
(* specification: idle is reset by a mention, a contact is removed when    *)
(* idle exceeds the end of its kind's keep_alive, idle is incremented at   *)
(* the end of the tick.                                                    *)
(***************************************************************************)

MaxClientTicks == 13

MAX_KEEP_ALIVE == 10

\* EntityKind::keep_alive, as <<start, end>>.
keep_alive(kind) ==
    CASE kind \in {"Boat", "Decoy", "Weapon", "Aircraft", "Turret"} -> <<0, 0>>
      [] kind = "Collectible" -> <<2, 5>>
      [] kind = "Obstacle" -> <<MAX_KEEP_ALIVE, MAX_KEEP_ALIVE>>

\* The kind of the entity behind each contact id.
ContactKinds == <<"Boat", "Collectible", "Obstacle">>

ContactIds == 1..Len(ContactKinds)

NoContact == [kind |-> "None"]

NotLost == [tick |-> 0]

\* InterpolatedContact::new, with the tick of the update that mentions it.
InterpolatedContactNew(kind, tick) == [kind |-> kind, idle |-> 0, mentioned |-> tick]

\* A variant of the removal rule that waits one more tick.
LostLate(c) == c.idle > keep_alive(c.kind)[2] + 1

\* The removal rule: idle exceeds the end of keep_alive.
Lost(c) == c.idle > keep_alive(c.kind)[2]

\* A mention in the update of the tick: the contact is created or its idle
\* is reset.
Mention(c, kind, tick) ==
    IF c = NoContact THEN InterpolatedContactNew(kind, tick)
    ELSE [c EXCEPT !.idle = 0, !.mentioned = tick]

\* The end of the tick for a contact.
EndOfTick(c) == IF c = NoContact THEN c ELSE [c EXCEPT !.idle = TicksSaturatingAdd(@, 1)]

\* The removal of the lost contacts.
RemoveLost(cs) == [id \in ContactIds |-> IF cs[id] # NoContact /\ Lost(cs[id]) THEN NoContact ELSE cs[id]]

\* The record of the contacts lost in the tick.
RecordLost(cs, lost, tick) ==
    [id \in ContactIds |->
        IF cs[id] # NoContact /\ Lost(cs[id])
        THEN [tick |-> tick, mentioned |-> cs[id].mentioned, kind |-> cs[id].kind]
        ELSE lost[id]]

ContactInit ==
    /\ contacts = [id \in ContactIds |-> NoContact]
    /\ ctick = 0
    /\ clost = [id \in ContactIds |-> NotLost]
    /\ late_check \in BOOLEAN

\* One tick of the client: the update mentions some entities; the contacts
\* that are lost are removed, before or after the end of the tick.
ContactTick ==
    /\ ctick \in 0..(MaxClientTicks - 1)
    /\ \E mentioned \in SUBSET ContactIds :
          LET tick == ctick + 1
              updated == [id \in ContactIds |->
                            IF id \in mentioned
                            THEN Mention(contacts[id], ContactKinds[id], tick)
                            ELSE contacts[id]]
              ended == [id \in ContactIds |-> EndOfTick(updated[id])]
          IN  IF late_check
              THEN /\ contacts' = RemoveLost(ended)
                   /\ clost' = RecordLost(ended, clost, tick)
              ELSE /\ contacts' = [id \in ContactIds |-> EndOfTick(RemoveLost(updated)[id])]
                   /\ clost' = RecordLost(updated, clost, tick)
    /\ ctick' = ctick + 1
    /\ UNCHANGED late_check
    /\ UNCHANGED notContactVars

ContactNext ==
    \/ ContactTick

InitContact ==
    ContactInit /\ MutIdle /\ GetIdle /\ CodecIdle /\ RectIdle /\ TerrainIdle /\ PhysIdle /\ ParticleIdle /\ AltIdle /\ ModifyIdle /\ ApplyIdle /\ DrainIdle /\ AzimuthIdle /\ ArmIdle /\ SyncIdle /\ FatesIdle /\ RegenIdle /\ AimIdle /\ UpdIdle /\ CollideIdle /\ BorderIdle /\ SurfaceIdle /\ BitmapIdle /\ ConvertIdle

SpecContact == InitContact /\ [][ContactNext]_vars

\* C7: a contact whose last mention was at tick t is removed no earlier than
\* tick t + keep_alive.end and no later than tick t + keep_alive.end + 1: a
\* removal happens in one of these two ticks, and no contact outlives them.
C7_LostContactTiming ==
    \A id \in ContactIds :
        /\ clost[id] # NotLost =>
              /\ clost[id].tick >= clost[id].mentioned + keep_alive(clost[id].kind)[2]
              /\ clost[id].tick <= clost[id].mentioned + keep_alive(clost[id].kind)[2] + 1
        /\ contacts[id] # NoContact =>
              ctick <= contacts[id].mentioned + keep_alive(contacts[id].kind)[2]

\* An obstacle, a collectible and a boat were each lost after their last
\* mention, the obstacle after more than MAX_KEEP_ALIVE ticks.
C7_Witness ==
    /\ \A id \in ContactIds : clost[id] # NotLost /\ contacts[id] = NoContact
    /\ \E id \in ContactIds :
          /\ clost[id].kind = "Obstacle"
          /\ clost[id].mentioned > 1
          /\ clost[id].tick >= clost[id].mentioned + MAX_KEEP_ALIVE
    /\ \E id \in ContactIds :
          /\ clost[id].kind = "Collectible"
          /\ clost[id].tick >= clost[id].mentioned + 5

(***************************************************************************)
(* InterpolatedContact::generate_particles                                 *)
(* (client/src/interpolated_contact.rs).  Contact and the catalog of       *)
(* entity data are not part of the sources at hand: a contact is the       *)
(* fields that generate_particles reads.                                   *)
(***************************************************************************)

MaxFrames == 2

\* The entity types of the model and the sub kinds of what their armaments
\* spawn (EntityData.armaments).
Armaments(entity_type) ==
    CASE entity_type = "Destroyer" -> <<"Shell", "Torpedo", "Rocket">>
      [] entity_type = "Cruiser" -> <<"Missile", "RocketTorpedo", "DepthCharge">>

ContactEntityTypes == {"Destroyer", "Cruiser"}

\* The values of a reload: ready, or ticks left.
ReloadValues == {0, 10}

\* Contact: entity_type() (None: unknown), reloads_known(), turrets_known(),
\* reloads().
Contact(entity_type, reloads_known, turrets_known, reloads) ==
    [entity_type |-> entity_type, reloads_known |-> reloads_known,
     turrets_known |-> turrets_known, reloads |-> reloads]

\* The contacts an update can carry.
Contacts ==
    {Contact("None", FALSE, FALSE, <<>>)}
    \cup {Contact(t, FALSE, k, <<>>) : t \in ContactEntityTypes, k \in BOOLEAN}
    \cup UNION {{Contact(t, TRUE, k, r) : r \in [1..Len(Armaments(t)) -> ReloadValues], k \in BOOLEAN}
                : t \in ContactEntityTypes}

\* InterpolatedContact::new (l.35-43).
InterpolatedContact(contact) == [model |-> contact, view |-> contact]

\* A variant of the test that ignores the old reload.
WasJustFiredAnyOld(old, new) == ~(new = 0)

\* The test of l.99: the armament was just fired.
WasJustFired(old, new) == ~(new = 0 \/ old # 0)

\* The sub kinds that flash (l.107-113).
HasMuzzleFlash(sub_kind) == sub_kind \in {"Shell", "Rocket", "RocketTorpedo", "Missile"}

\* The particles of armament i (l.147-164): amount = 10.
MuzzleFlash(i) == [k \in 1..10 |-> [armament |-> i, i |-> k - 1]]

\* The loop of l.96-165 from index i on.
RECURSIVE GenerateFrom(_, _, _)
GenerateFrom(ic, i, layer) ==
    IF i > Len(ic.view.reloads) THEN layer
    ELSE IF WasJustFired(ic.view.reloads[i], ic.model.reloads[i])
            /\ HasMuzzleFlash(Armaments(ic.model.entity_type)[i])
         THEN GenerateFrom(ic, i + 1, layer \o MuzzleFlash(i))
         ELSE GenerateFrom(ic, i + 1, layer)

\* InterpolatedContact::generate_particles: the particles added to the layer.
generate_particles(ic) ==
    IF /\ ic.model.entity_type # "None"
       /\ ic.view.entity_type = ic.model.entity_type
       /\ ic.view.reloads_known
       /\ ic.model.reloads_known
       /\ ic.view.turrets_known
    THEN GenerateFrom(ic, 1, <<>>)
    ELSE <<>>

ParticleInit ==
    /\ icontact \in {InterpolatedContact(c) : c \in Contacts}
    /\ particles = <<>>
    /\ ipc = "updating"
    /\ iframes = 0

\* An update mentions the contact: the model snaps to it.
ParticleUpdate ==
    /\ ipc = "updating"
    /\ iframes < MaxFrames
    /\ \E c \in Contacts : icontact' = [icontact EXCEPT !.model = c]
    /\ ipc' = "updated"
    /\ particles' = <<>>
    /\ UNCHANGED iframes
    /\ UNCHANGED notParticleVars

\* generate_particles on the contact.
ParticleGenerate ==
    /\ ipc = "updated"
    /\ particles' = generate_particles(icontact)
    /\ ipc' = "generated"
    /\ UNCHANGED <<icontact, iframes>>
    /\ UNCHANGED notParticleVars

\* The view reaches the model before the next update.
ParticleInterpolate ==
    /\ ipc = "generated"
    /\ icontact' = [icontact EXCEPT !.view = icontact.model]
    /\ ipc' = "updating"
    /\ iframes' = iframes + 1
    /\ UNCHANGED particles
    /\ UNCHANGED notParticleVars

ParticleNext ==
    \/ ParticleUpdate
    \/ ParticleGenerate
    \/ ParticleInterpolate

InitParticle ==
    ParticleInit /\ MutIdle /\ GetIdle /\ CodecIdle /\ RectIdle /\ TerrainIdle /\ PhysIdle /\ ContactIdle /\ AltIdle /\ ModifyIdle /\ ApplyIdle /\ DrainIdle /\ AzimuthIdle /\ ArmIdle /\ SyncIdle /\ FatesIdle /\ RegenIdle /\ AimIdle /\ UpdIdle /\ CollideIdle /\ BorderIdle /\ SurfaceIdle /\ BitmapIdle /\ ConvertIdle

SpecParticle == InitParticle /\ [][ParticleNext]_vars

(***************************************************************************)
(* Claims about generate_particles.                                        *)
(***************************************************************************)

\* The number of particles that belong to armament i.
ParticlesOf(i) == Cardinality({k \in 1..Len(particles) : particles[k].armament = i})

\* Model and view have the same entity type and known reloads and turrets.
SameKnown ==
    /\ icontact.model.entity_type # "None"
    /\ icontact.view.entity_type = icontact.model.entity_type
    /\ icontact.view.reloads_known /\ icontact.model.reloads_known
    /\ icontact.view.turrets_known /\ icontact.model.turrets_known

\* C8 as stated: generate_particles emits exactly 10 particles for each
\* armament index i with view.reloads[i] != 0 and model.reloads[i] == 0 whose
\* spawned type is a Shell, Rocket, RocketTorpedo or Missile, and no particle
\* for any other index.
C8_FlashWhenReloadReachesZero ==
    (ipc = "generated" /\ SameKnown) =>
        \A i \in 1..Len(icontact.view.reloads) :
            ParticlesOf(i) =
                IF /\ icontact.view.reloads[i] # 0
                   /\ icontact.model.reloads[i] = 0
                   /\ Armaments(icontact.model.entity_type)[i]
                         \in {"Shell", "Rocket", "RocketTorpedo", "Missile"}
                THEN 10 ELSE 0

\* C8, amended: generate_particles emits exactly 10 particles for each
\* armament index i with view.reloads[i] == 0 and model.reloads[i] != 0 whose
\* spawned type is a Shell, Rocket, RocketTorpedo or Missile, and no particle
\* for any other index.
C8_FlashWhenReloadLeavesZero ==
    (ipc = "generated" /\ SameKnown) =>
        /\ Len(particles) = 10 * Cardinality({i \in 1..Len(icontact.view.reloads) : ParticlesOf(i) > 0})
        /\ \A i \in 1..Len(icontact.view.reloads) :
              ParticlesOf(i) =
                  IF /\ icontact.view.reloads[i] = 0
                     /\ icontact.model.reloads[i] # 0
                     /\ Armaments(icontact.model.entity_type)[i]
                           \in {"Shell", "Rocket", "RocketTorpedo", "Missile"}
                  THEN 10 ELSE 0

\* generate_particles ran on a contact of which one flashing armament and one
\* other armament were just fired, and one flashing armament finished its
\* reload: 10 particles for the first, none for the others.
C8_Witness ==
    /\ ipc = "generated"
    /\ SameKnown
    /\ icontact.model.entity_type = "Destroyer"
    /\ icontact.view.reloads = <<0, 0, 10>>
    /\ icontact.model.reloads = <<10, 10, 0>>
    /\ Len(particles) = 10
    /\ ParticlesOf(1) = 10

(***************************************************************************)
(* lookup_altitude and reverse_lookup_altitude (common/src/terrain.rs):    *)
(* the non-linear table between terrain bytes (u8) and altitudes (i8).     *)
(***************************************************************************)

MaxConversions == 3

U8Max == 255

\* u8::saturating_add.
U8SaturatingAdd(a, b) == Min(a + b, U8Max)

\* u8::wrapping_add.
U8WrappingAdd(a, b) == (a + b) % (U8Max + 1)

\* u8::saturating_mul.
U8SaturatingMul(a, b) == Min(a * b, U8Max)

\* u8::wrapping_mul.
U8WrappingMul(a, b) == (a * b) % (U8Max + 1)

\* The division of Rust's integers, which truncates toward zero.
DivTrunc(a, b) == IF a >= 0 THEN a \div b ELSE -((-a) \div b)

\* data >> 4.
Shr4(data) == data \div 16

ALTITUDE_LUT == <<-128, -115, -100, -50, -20, -5, -2, -1, 0, 1, 2, 5, 20, 50, 100, 115, 127>>

DATA_OFFSET == 6

\* The interpolation of lookup_altitude on the offset byte (l.74-78).
Interpolate(data) ==
    LET low == ALTITUDE_LUT[Shr4(data) + 1]
        high == ALTITUDE_LUT[Shr4(data) + 2]
        frac == data % 16
    IN  low + DivTrunc((high - low) * frac, 16)

\* A variant of lookup_altitude whose offset wraps around.
lookup_altitude_wrapping(data) == Interpolate(U8WrappingAdd(data, DATA_OFFSET))

\* lookup_altitude: terrain data to altitude.
lookup_altitude(data) == Interpolate(U8SaturatingAdd(data, DATA_OFFSET))

\* <[i8]>::binary_search on ALTITUDE_LUT: Ok(index) of the altitude, or
\* Err(index at which it would be inserted); indices from 0.
BinarySearch(altitude) ==
    IF \E i \in 1..Len(ALTITUDE_LUT) : ALTITUDE_LUT[i] = altitude
    THEN [ok |-> TRUE, index |-> (CHOOSE i \in 1..Len(ALTITUDE_LUT) : ALTITUDE_LUT[i] = altitude) - 1]
    ELSE [ok |-> FALSE,
          index |-> Cardinality({i \in 1..Len(ALTITUDE_LUT) : ALTITUDE_LUT[i] < altitude})]

\* .map_err(|n| n.saturating_sub(1)).into_ok_or_err().
SearchIndex(altitude) ==
    LET found == BinarySearch(altitude)
    IN  IF found.ok THEN found.index ELSE Max(found.index - 1, 0)

\* A variant of reverse_lookup_altitude whose product wraps around.
reverse_lookup_altitude_wrapping(altitude) == U8WrappingMul(SearchIndex(altitude), 16)

\* reverse_lookup_altitude: altitude to terrain data.
reverse_lookup_altitude(altitude) == U8SaturatingMul(SearchIndex(altitude), 16)

\* Altitude::difference: the distance of two altitudes.
AltitudeDifference(a, b) == IF a > b THEN a - b ELSE b - a

\* The kind of the last value of the trace.
AltKind == IF (Len(atrace) % 2 = 1) = (astart = "raw") THEN "raw" ELSE "altitude"

AltInit ==
    /\ astart \in {"raw", "altitude"}
    /\ \E v \in (IF astart = "raw" THEN 0..U8Max ELSE -128..127) : atrace = <<v>>

\* lookup_altitude on a terrain byte.
AltLookup ==
    /\ astart # "idle"
    /\ AltKind = "raw"
    /\ Len(atrace) < MaxConversions
    /\ atrace' = Append(atrace, lookup_altitude(atrace[Len(atrace)]))
    /\ UNCHANGED astart
    /\ UNCHANGED notAltVars

\* reverse_lookup_altitude on an altitude.
AltReverseLookup ==
    /\ astart # "idle"
    /\ AltKind = "altitude"
    /\ Len(atrace) < MaxConversions
    /\ atrace' = Append(atrace, reverse_lookup_altitude(atrace[Len(atrace)]))
    /\ UNCHANGED astart
    /\ UNCHANGED notAltVars

AltNext ==
    \/ AltLookup
    \/ AltReverseLookup

InitAlt ==
    AltInit /\ MutIdle /\ GetIdle /\ CodecIdle /\ RectIdle /\ TerrainIdle /\ PhysIdle /\ ContactIdle /\ ParticleIdle /\ ModifyIdle /\ ApplyIdle /\ DrainIdle /\ AzimuthIdle /\ ArmIdle /\ SyncIdle /\ FatesIdle /\ RegenIdle /\ AimIdle /\ UpdIdle /\ CollideIdle /\ BorderIdle /\ SurfaceIdle /\ BitmapIdle /\ ConvertIdle

SpecAlt == InitAlt /\ [][AltNext]_vars

(***************************************************************************)
(* Claims about the altitude table.                                        *)
(***************************************************************************)

\* C19: for every raw terrain byte r in 0..=255,
\* reverse_lookup_altitude(lookup_altitude(r)) >> 4 equals
\* saturating_add(r, DATA_OFFSET) >> 4.
C19_RawRoundTrip ==
    /\ (astart = "raw" /\ Len(atrace) >= 3) =>
          /\ atrace[1] \in 0..U8Max
          /\ atrace[2] \in -128..127
          /\ Shr4(atrace[3]) = Shr4(U8SaturatingAdd(atrace[1], DATA_OFFSET))
    /\ astart = "raw" =>
          Shr4(reverse_lookup_altitude(lookup_altitude(atrace[1])))
             = Shr4(U8SaturatingAdd(atrace[1], DATA_OFFSET))

\* A byte whose offset saturates went through both conversions.
C19_Witness ==
    /\ astart = "raw"
    /\ Len(atrace) = 3
    /\ atrace[1] + DATA_OFFSET > U8Max
    /\ Shr4(atrace[3]) = 15

\* C20: for every altitude a in [-128, 127], the absolute difference between
\* lookup_altitude(reverse_lookup_altitude(a)) and a is below 20 when
\* |a| < 10 and below 50 otherwise.
C20_AltitudeRoundTrip ==
    (astart = "altitude" /\ Len(atrace) >= 3) =>
        /\ atrace[2] \in 0..U8Max
        /\ AltitudeDifference(atrace[3], atrace[1])
              < (IF atrace[1] > -10 /\ atrace[1] < 10 THEN 20 ELSE 50)

\* The highest altitude, whose table index times 16 saturates, went through
\* both conversions.
C20_Witness ==
    /\ astart = "altitude"
    /\ Len(atrace) = 3
    /\ atrace[1] = 127
    /\ atrace[2] = U8Max

(***************************************************************************)
(* Terrain::modify (common/src/terrain.rs).  A position is given in        *)
(* quarters of a pixel (the position divided by SCALE, times 4), an amount *)
(* is a whole number, so that the products of the program's floats are     *)
(* exact.                                                                  *)
(***************************************************************************)

MaxModifies == 2

AltitudeMin == -128

AltitudeMax == 127

\* TerrainMutation (l.246-255): position, amount, condition, clamp; a range
\* is <<start, end>>.
TerrainMutation(position, amount, condition, clamp) ==
    [position |-> position, amount |-> amount, condition |-> condition, clamp |-> clamp]

\* Option<Coord>::None.
NoCoord == <<>>

\* Coord::from_scaled_position on a whole position: None outside the terrain.
\* A negative coordinate becomes a huge usize.
from_scaled_position(v) ==
    LET x == v[1] + OFFSET
        y == v[2] + OFFSET
    IN  IF x < 0 \/ y < 0 \/ x >= SIZE \/ y >= SIZE THEN NoCoord ELSE Coord(x, y)

\* f32 as i8: toward zero, saturating.
AsI8(n) == Max(AltitudeMin, Min(AltitudeMax, n))

\* u8::saturating_add_signed.
U8SaturatingAddSigned(a, b) == Max(0, Min(U8Max, a + b))

\* Terrain::at.
TerrainPixel(t, coord) == ChunkAt(mut_chunk(t, from_coord(coord)).chunks[from_coord(coord)].data, coord)

\* The altitude that mutate finds at a pixel: lookup_altitude(at + 0b0011).
OldAltitude(t, coord) == lookup_altitude(TerrainPixel(t, coord) + 3)

\* RangeInclusive::contains.
RangeContains(range, a) == range[1] <= a /\ a <= range[2]

\* Ord::clamp.
Clamp(a, range) == Max(range[1], Min(range[2], a))

\* A variant of the value that mutate stores, without the clamp.
MutatedValueUnclamped(old, to_add, clamp) ==
    reverse_lookup_altitude(lookup_altitude(U8SaturatingAddSigned(old, to_add)))

\* The value that mutate stores for a pixel whose condition holds (l.582-586).
MutatedValue(old, to_add, clamp) ==
    reverse_lookup_altitude(Clamp(lookup_altitude(U8SaturatingAddSigned(old, to_add)), clamp))

\* A variant of the condition of mutate that always holds.
ConditionAlways(mutation, old_altitude) == TRUE

\* The condition of mutate (l.581).
ConditionHolds(mutation, old_altitude) == RangeContains(mutation.condition, old_altitude)

\* The inner fn mutate (l.571-590); factor4 is four times the factor, amount
\* the halved amount times two.  The Terrain afterwards and whether the data
\* changed.
mutate(t, coord, factor4, mutation) ==
    LET t1 == mut_chunk(t, from_coord(coord))
        old == TerrainPixel(t1, coord) + 3
        old_altitude == lookup_altitude(old)
        to_add == AsI8(DivTrunc(mutation.amount * factor4, 8))
    IN  IF ConditionHolds(mutation, old_altitude)
        THEN TerrainSet(t1, coord, MutatedValue(old, to_add, mutation.clamp), 0)
        ELSE [terrain |-> t1, changed |-> FALSE]

\* The floor and the ceil of a position, and four times its fractional part.
Floor4(position) == <<position[1] \div 4, position[2] \div 4>>

Fract4(position) == <<position[1] % 4, position[2] % 4>>

Ceil4(position) ==
    <<Floor4(position)[1] + (IF Fract4(position)[1] > 0 THEN 1 ELSE 0),
      Floor4(position)[2] + (IF Fract4(position)[2] > 0 THEN 1 ELSE 0)>>

\* The four pixels around a position, in the order modify mutates them, with
\* four times their factors; <<>> when the ceil or the floor pixel is outside
\* of the terrain.
FourPixels(position) ==
    LET c == from_scaled_position(Ceil4(position))
        f == from_scaled_position(Floor4(position))
        fract == Fract4(position)
    IN  IF c = NoCoord \/ f = NoCoord THEN <<>>
        ELSE << [coord |-> Coord(f[1], f[2]), factor4 |-> 8 - fract[1] - fract[2]],
                [coord |-> Coord(c[1], f[2]), factor4 |-> 4 + fract[1] - fract[2]],
                [coord |-> Coord(f[1], c[2]), factor4 |-> 4 - fract[1] + fract[2]],
                [coord |-> Coord(c[1], c[2]), factor4 |-> fract[1] + fract[2]] >>

\* A variant of the four calls that keeps the result of the last call only
\* (modified = ... in place of modified |= ...).
RECURSIVE MutateFromLastOnly(_, _, _, _)
MutateFromLastOnly(acc, pixels, k, mutation) ==
    IF k > Len(pixels) \/ acc = Panic THEN acc
    ELSE LET r == mutate(acc.terrain, pixels[k].coord, pixels[k].factor4, mutation)
         IN  IF r = Panic THEN Panic
             ELSE MutateFromLastOnly([terrain |-> r.terrain, changed |-> r.changed],
                                     pixels, k + 1, mutation)

\* The four calls of mutate from the k-th on, with modified |= ....
RECURSIVE MutateFrom(_, _, _, _)
MutateFrom(acc, pixels, k, mutation) ==
    IF k > Len(pixels) \/ acc = Panic THEN acc
    ELSE LET r == mutate(acc.terrain, pixels[k].coord, pixels[k].factor4, mutation)
         IN  IF r = Panic THEN Panic
             ELSE MutateFrom([terrain |-> r.terrain, changed |-> acc.changed \/ r.changed],
                             pixels, k + 1, mutation)

\* Terrain::modify: the Terrain afterwards and what is returned, "None",
\* "Some(true)" or "Some(false)".
modify(t, mutation) ==
    LET pixels == FourPixels(mutation.position)
    IN  IF pixels = <<>> THEN [terrain |-> t, result |-> "None"]
        ELSE LET r == MutateFrom([terrain |-> t, changed |-> FALSE], pixels, 1, mutation)
             IN  IF r = Panic THEN Panic
                 ELSE [terrain |-> r.terrain,
                       result |-> IF r.changed THEN "Some(true)" ELSE "Some(false)"]

ModifyGenerators == {"zero", "full", "gradient"}

\* Positions: between four pixels of one chunk, on a pixel, across the four
\* chunks, and with the ceil or the floor pixel outside of the terrain.
ModifyPositions ==
    { <<1, 2>>, <<0, 0>>, <<-2, -1>>, <<4 * OFFSET - 6, 4>>, <<-4 * OFFSET - 1, 0>> }

ModifyAmounts == {50, -50, 6}

FullRange == <<AltitudeMin, AltitudeMax>>

\* The condition and the clamp of TerrainMutation::simple, ::conditional and
\* ::clamped.
ModifyRanges ==
    { [condition |-> FullRange, clamp |-> FullRange],
      [condition |-> <<0, AltitudeMax>>, clamp |-> FullRange],
      [condition |-> <<-36, 0>>, clamp |-> FullRange],
      [condition |-> FullRange, clamp |-> <<-1, 1>>],
      [condition |-> FullRange, clamp |-> <<6, 9>>] }

TerrainMutations ==
    { TerrainMutation(p, a, r.condition, r.clamp) :
        p \in ModifyPositions, a \in ModifyAmounts, r \in ModifyRanges }

ModifyInit ==
    /\ \E g \in ModifyGenerators : mterrain = Terrain(g)
    /\ mbefore = mterrain
    /\ mmutation = <<>>
    /\ mresult = ""
    /\ mcalls = 0

\* Terrain::modify(mutation).
Modify ==
    /\ mcalls \in 0..(MaxModifies - 1)
    /\ mresult # "panic"
    /\ \E mutation \in TerrainMutations :
          LET r == modify(mterrain, mutation)
          IN  /\ mmutation' = mutation
              /\ mbefore' = mterrain
              /\ IF r = Panic
                 THEN /\ mresult' = "panic"
                      /\ UNCHANGED mterrain
                 ELSE /\ mresult' = r.result
                      /\ mterrain' = r.terrain
    /\ mcalls' = mcalls + 1
    /\ UNCHANGED notModifyVars

ModifyNext ==
    \/ Modify

InitModify ==
    ModifyInit /\ MutIdle /\ GetIdle /\ CodecIdle /\ RectIdle /\ TerrainIdle /\ PhysIdle
               /\ ContactIdle /\ ParticleIdle /\ AltIdle /\ ApplyIdle /\ DrainIdle /\ AzimuthIdle /\ ArmIdle /\ SyncIdle /\ FatesIdle /\ RegenIdle /\ AimIdle /\ UpdIdle /\ CollideIdle /\ BorderIdle /\ SurfaceIdle /\ BitmapIdle /\ ConvertIdle

SpecModify == InitModify /\ [][ModifyNext]_vars

(***************************************************************************)
(* Claims about Terrain::modify.                                           *)
(***************************************************************************)

\* The pixels around the position of the last call.
LastPixels == {FourPixels(mmutation.position)[k].coord : k \in 1..Len(FourPixels(mmutation.position))}

\* The pixels of the four whose stored value the last call changed.
ChangedPixels == {c \in LastPixels : TerrainPixel(mbefore, c) # TerrainPixel(mterrain, c)}

\* Every pixel of the terrain.
AllPixels == (0..(SIZE - 1)) \X (0..(SIZE - 1))

\* C13: Terrain::modify returns Some(true) iff the stored value of at least
\* one of the four pixels around the position changed, and then the owning
\* chunk is in `updated`; Some(false) if none changed; None when the floor or
\* the ceil pixel is outside of the terrain, and then the Terrain (pixels,
\* ChunkUpdates, `updated`) is unchanged.
C13_ModifyResult ==
    mcalls > 0 =>
        /\ mresult \in {"None", "Some(true)", "Some(false)"}
        /\ mresult = "None" <=>
              \/ from_scaled_position(Floor4(mmutation.position)) = NoCoord
              \/ from_scaled_position(Ceil4(mmutation.position)) = NoCoord
        /\ mresult = "None" => mterrain = mbefore
        /\ mresult = "Some(true)" <=> ChangedPixels # {}
        /\ \A c \in ChangedPixels : from_coord(c) \in mterrain.updated

\* The second call changed several pixels of chunks that were not generated
\* before it and returned Some(true).
C13_Witness ==
    /\ mcalls = 2
    /\ mresult = "Some(true)"
    /\ Cardinality(ChangedPixels) > 1
    /\ mbefore.updated = {}
    /\ \E c \in LastPixels : mbefore.chunks[from_coord(c)] = NoChunk

\* The altitude of a pixel as Terrain::sample gives it on the pixel: the
\* lookup of the stored value.
StoredAltitude(t, coord) == lookup_altitude(TerrainPixel(t, coord))

\* The pixels whose stored value the last call changed.
ChangedAnywhere ==
    UNION { LET before == mut_chunk(mbefore, id).chunks[id].data
                after == mut_chunk(mterrain, id).chunks[id].data
            IN  IF before = after THEN {}
                ELSE {c \in AllPixels : from_coord(c) = id /\ ChunkAt(before, c) # ChunkAt(after, c)} :
            id \in TerrainChunkIds }

C15_ChangedPixelsWithinClamp ==
    mcalls > 0 =>
        \A c \in ChangedAnywhere :
            RangeContains(mmutation.clamp, StoredAltitude(mterrain, c))

\* A call with a clamp range changed a pixel.
C15_ClampedCall ==
    /\ mcalls > 0
    /\ mmutation.clamp # FullRange
    /\ ChangedAnywhere # {}

(***************************************************************************)
(* Terrain::apply_update (common/src/terrain.rs): the client applies the   *)
(* chunks of a TerrainUpdate as they were deserialized.                    *)
(***************************************************************************)

MaxApplies == 1

MaxUpdateLen == 2

\* Mod::from_bytes and Mod::to_coord_and_value: the coordinate and the value.
ModFromBytes(b) == b[1] + 256 * b[2]

to_coord_and_value(data) ==
    [coord |-> <<data \div 1024, (data \div 16) % 64>>, value |-> (data % 16) * 16]

\* Chunk::apply_serialized_chunk with is_update: bytes.array_chunks::<2>() drops
\* a trailing odd byte; every Mod is set and its coordinate collected.
RECURSIVE ApplyMods(_, _, _, _)
ApplyMods(data, coords, bytes, k) ==
    IF 2 * k > Len(bytes) \/ DOMAIN data = {} THEN [data |-> data, coords |-> coords]
    ELSE LET m == to_coord_and_value(ModFromBytes(<<bytes[2 * k - 1], bytes[2 * k]>>))
         IN  ApplyMods(ChunkSet(data, m.coord, m.value), Append(coords, m.coord), bytes, k + 1)

\* Chunk::apply_serialized_chunk: the chunk afterwards, or Panic.
apply_serialized_chunk(chunk, serialized) ==
    IF serialized.is_update
    THEN LET r == ApplyMods(chunk.data, <<>>, serialized.bytes, 1)
         IN  [chunk EXCEPT !.data = r.data, !.update = UpdateCoords(r.coords)]
    ELSE LET data == from_bytes(serialized.bytes)
         IN  IF data = Panic THEN Panic ELSE Chunk(data, None, UpdateComplete)

\* self.chunks[chunk_id.1 as usize][chunk_id.0 as usize] is within the arrays.
ChunkIdInRange(chunk_id) == chunk_id[1] < SIZE_CHUNKS /\ chunk_id[2] < SIZE_CHUNKS

\* Terrain::apply_update from the k-th item on: the Terrain when the call
\* ended and how it ended, "ok" (it returned) or "panic".
RECURSIVE ApplyFrom(_, _, _)
ApplyFrom(t, update, k) ==
    IF k > Len(update) \/ DOMAIN t = {} THEN [terrain |-> t, result |-> "ok"]
    ELSE LET chunk_id == update[k].chunk_id
         IN  IF ~ChunkIdInRange(chunk_id) THEN [terrain |-> t, result |-> "panic"]
             ELSE LET t1 == mut_chunk(t, chunk_id)
                      chunk == apply_serialized_chunk(t1.chunks[chunk_id], update[k].serialized)
                  IN  IF chunk = Panic THEN [terrain |-> t1, result |-> "panic"]
                      ELSE ApplyFrom([t1 EXCEPT !.chunks[chunk_id] = chunk,
                                                !.updated = ChunkSetAdd(@, chunk_id)],
                                     update, k + 1)

apply_update(t, update) == ApplyFrom(t, update, 1)

\* Payloads: a whole chunk, an RLE stream of one pixel too many, one of four
\* pixels only, one Mod, and one Mod followed by an odd byte.
CompleteBytes == to_bytes(ChunkNew(<<0, 0>>, "gradient"))

LongBytes == CompleteBytes \o <<0>>

ShortBytes == <<15 * 16 + 3>>

ModsBytes == ModToBytes(ModNew(<<1, 2>>, 240))

OddModsBytes == ModsBytes \o <<7>>

SerializedChunks ==
    { SerializedChunk(FALSE, CompleteBytes), SerializedChunk(FALSE, LongBytes),
      SerializedChunk(FALSE, ShortBytes), SerializedChunk(TRUE, ModsBytes),
      SerializedChunk(TRUE, OddModsBytes) }

\* ChunkId(u16, u16) as deserialized: within the terrain or not.
UpdateChunkIds == { <<0, 0>>, <<1, 0>>, <<SIZE_CHUNKS, 0>>, <<0, SIZE_CHUNKS>> }

UpdateItems == [chunk_id : UpdateChunkIds, serialized : SerializedChunks]

TerrainUpdates == UNION { [1..n -> UpdateItems] : n \in 1..MaxUpdateLen }

ApplyInit ==
    /\ \E g \in {"zero", "gradient"} : uterrain = Terrain(g)
    /\ ubefore = uterrain
    /\ uupdate = <<>>
    /\ uresult = ""
    /\ ucalls = 0

\* Terrain::apply_update(update).
ApplyUpdate ==
    /\ ucalls \in 0..(MaxApplies - 1)
    /\ uresult # "panic"
    /\ \E update \in TerrainUpdates :
          LET r == apply_update(uterrain, update)
          IN  /\ uupdate' = update
              /\ ubefore' = uterrain
              /\ uterrain' = r.terrain
              /\ uresult' = r.result
    /\ ucalls' = ucalls + 1
    /\ UNCHANGED notApplyVars

ApplyNext ==
    \/ ApplyUpdate

InitApply ==
    ApplyInit /\ MutIdle /\ GetIdle /\ CodecIdle /\ RectIdle /\ TerrainIdle /\ PhysIdle
              /\ ContactIdle /\ ParticleIdle /\ AltIdle /\ ModifyIdle /\ DrainIdle /\ AzimuthIdle /\ ArmIdle /\ SyncIdle /\ FatesIdle /\ RegenIdle /\ AimIdle /\ UpdIdle /\ CollideIdle /\ BorderIdle /\ SurfaceIdle /\ BitmapIdle /\ ConvertIdle

SpecApply == InitApply /\ [][ApplyNext]_vars

(***************************************************************************)
(* Claims about Terrain::apply_update.                                     *)
(***************************************************************************)

\* The number of pixels an RLE stream decodes to.
RECURSIVE DecodedPixels(_, _)
DecodedPixels(bytes, k) ==
    IF k > Len(bytes) THEN 0 ELSE (bytes[k] % MAX_COUNT) + 1 + DecodedPixels(bytes, k + 1)

\* An item with an out-of-range ChunkId or a malformed payload.
Malformed(item) ==
    \/ ~ChunkIdInRange(item.chunk_id)
    \/ ~item.serialized.is_update /\ DecodedPixels(item.serialized.bytes, 1) # ChunkPixels
    \/ item.serialized.is_update /\ Len(item.serialized.bytes) % ModSize # 0

\* C12: applying a TerrainUpdate with an out-of-range ChunkId or a malformed
\* payload ends in a failure reported to the caller: it does not panic, it
\* does not return as if applied, and the Terrain is as before.
C12_MalformedUpdateRejected ==
    (ucalls > 0 /\ \E k \in 1..Len(uupdate) : Malformed(uupdate[k])) =>
        /\ uresult \notin {"panic", "ok"}
        /\ uterrain = ubefore

\* Terrain::apply_update panicked after it had applied a chunk.
C12_PanicAfterPartialApply ==
    /\ ucalls > 0
    /\ uresult = "panic"
    /\ uterrain.updated # ubefore.updated

(***************************************************************************)
(* World::physics (server/src/world_physics.rs): the accumulators that the *)
(* parallel per-entity tasks fill and the drains that follow the parallel  *)
(* pass.  The entities are two boats of two players, two limited weapons   *)
(* of the first boat and an oil platform.  Positions are in quarters of a  *)
(* pixel of the terrain.  Entity::collides_with_terrain, the catalog and   *)
(* the player flags are not part of the sources at hand.                   *)
(***************************************************************************)

MaxDrainTicks == 1

\* armament.reload() of a limited armament, in ticks.
ArmamentReload == 5

DrainPlayers == {"P1", "P2"}

\* The entity indices: the boats, the limited weapons, the oil platform.
BoatIndices == {1, 2}
WeaponIndices == {3, 4}

\* No (data.sub_kind == Icebreaker).then_some(index).
NoAward == 0

\* The player of a boat and the boat of the weapons' player.
BoatPlayer(index) == IF index = 1 THEN "P1" ELSE "P2"
WeaponBoat == 1

\* EntityData.armaments of the first boat, by entity type, and
\* EntityData.limited.
BoatArmaments == <<"Heli", "Sam", "Heli">>
Limited(entity_type) == entity_type \in {"Heli", "Sam"}
WeaponType(index) == IF index = 3 THEN "Heli" ELSE "Sam"

\* Terrain::sample (terrain.rs l.430-469): the lookup of the raw bytes of the
\* four pixels around the position, interpolated; sixteen times the
\* interpolated byte is a whole number.
sample(t, position) ==
    LET c == from_scaled_position(Ceil4(position))
        f == from_scaled_position(Floor4(position))
        fract == Fract4(position)
        c00 == TerrainPixel(t, Coord(f[1], f[2]))
        c10 == TerrainPixel(t, Coord(c[1], f[2]))
        c01 == TerrainPixel(t, Coord(f[1], c[2]))
        c11 == TerrainPixel(t, Coord(c[1], c[2]))
        low == 4 * c00 + (c10 - c00) * fract[1]
        high == 4 * c01 + (c11 - c01) * fract[1]
    IN  lookup_altitude((4 * low + (high - low) * fract[2]) \div 16)

\* TerrainMutation::conditional and TerrainMutation::simple.
conditional(position, amount, condition) ==
    TerrainMutation(position, amount, condition, <<AltitudeMin, AltitudeMax>>)

simple(position, amount) ==
    TerrainMutation(position, amount, <<AltitudeMin, AltitudeMax>>, <<AltitudeMin, AltitudeMax>>)

\* A variant in which no boat is immune.
ImmuneNever(boat, collision_altitude) == FALSE

\* The immunity of a boat that collides with terrain (l.249-253).
Immune(boat, collision_altitude) ==
    \/ boat.sub_kind = "Hovercraft"
    \/ boat.arctic /\ boat.sub_kind = "Icebreaker" /\ collision_altitude <= 1
    \/ ~boat.arctic /\ boat.sub_kind = "Dredger"

\* The terrain mutations a colliding boat pushes (l.263-283).
BreakPushes(index, boat, collision_altitude) ==
    LET max_breakable == IF boat.arctic /\ boat.sub_kind = "Icebreaker" THEN 1 ELSE 0
    IN  IF boat.sub_kind # "Hovercraft" /\ RangeContains(<<0, max_breakable>>, collision_altitude)
        THEN << [mutation |-> conditional(boat.collision, -20, <<0, max_breakable>>),
                 award |-> IF boat.sub_kind = "Icebreaker" THEN index ELSE NoAward,
                 task |-> index] >>
        ELSE <<>>

\* The terrain mutations the task of a boat pushes, in the order it pushes
\* them: the break at the collision point, then, unless the collision
\* killed the boat, the excavation of a dredger (l.233-283, 371-377).
BoatMutationPushes(t, index, boat) ==
    LET collided == boat.collision # <<>>
        collision_altitude == sample(t, boat.collision)
        dead == /\ collided
                /\ ~Immune(boat, collision_altitude)
                /\ kill_in([ticks |-> boat.ticks], 1, TerrainKillTicks).dead
        dredged == IF boat.sub_kind = "Dredger" /\ ~dead
                   THEN << [mutation |-> simple(boat.position, -20), award |-> NoAward,
                            task |-> index] >>
                   ELSE <<>>
    IN  (IF collided THEN BreakPushes(index, boat, collision_altitude) ELSE <<>>) \o dredged

\* potential_limited_reload of a limited weapon that expired (l.51-64, 86-87).
WeaponReloadPushes(index, expired) ==
    IF expired /\ Limited(WeaponType(index))
    THEN << [player_entity_index |-> WeaponBoat, limited_entity_type |-> WeaponType(index)] >>
    ELSE <<>>

\* The pushes of the parallel pass, task after task.
TerrainMutationPushes(w, tasks) ==
    BoatMutationPushes(w.terrain, 1, tasks.boats[1])
        \o BoatMutationPushes(w.terrain, 2, tasks.boats[2])

LimitedReloadPushes(tasks) ==
    WeaponReloadPushes(3, tasks.expired[3]) \o WeaponReloadPushes(4, tasks.expired[4])

\* The players whose flags a boat found set (l.199-204).
ResetFlagPushes(w) == {BoatPlayer(i) : i \in {j \in BoatIndices : w.flags[BoatPlayer(j)]}}

\* The orders in which n pushes can end up in an accumulator.
Orders(n) == {o \in [1..n -> 1..n] : \A i, j \in 1..n : i # j => o[i] # o[j]}

\* The orders that keep the pushes of one task in the order the task made
\* them.
TaskOrders(pushes) ==
    {o \in Orders(Len(pushes)) :
        \A i, j \in 1..Len(pushes) :
            (i < j /\ pushes[o[i]].task = pushes[o[j]].task) => o[i] < o[j]}

\* Mutation::reload_limited_armament(world, boat_index, entity_type, false)
\* (world_mutation.rs l.324-361) on the consumption of the boat.
reload_limited_armament(consumption, entity_type) ==
    LET slots == {i \in 1..Len(BoatArmaments) :
                    BoatArmaments[i] = entity_type /\ consumption[i] = TicksMax}
    IN  IF ~Limited(entity_type) \/ slots = {} THEN consumption
        ELSE [consumption EXCEPT ![CHOOSE i \in slots : \A j \in slots : i <= j] = ArmamentReload]

\* The drain of limited_reloads (l.388-395).
RECURSIVE DrainLimitedReloads(_, _, _, _)
DrainLimitedReloads(consumption, pushes, order, k) ==
    IF k > Len(pushes) \/ Len(consumption) = 0 THEN consumption
    ELSE DrainLimitedReloads(
             reload_limited_armament(consumption, pushes[order[k]].limited_entity_type),
             pushes, order, k + 1)

\* A variant of the award of the drain that does not look at what modify
\* returned.
AwardsAlways(result, award) == award # NoAward

\* The award of the drain of terrain_mutations (l.399-403).
Awards(result, award) == result = "Some(true)" /\ award # NoAward

\* One iteration of the drain of terrain_mutations (l.398-405) on what
\* Terrain::modify returned: the terrain, the scores and a log of what modify
\* returned and whether it changed one of its four pixels.
DrainTerrainMutation(acc, push, r) ==
    IF r = Panic THEN [acc EXCEPT !.panic = TRUE]
    ELSE [terrain |-> r.terrain,
          score |-> IF Awards(r.result, push.award)
                    THEN [acc.score EXCEPT ![BoatPlayer(push.award)] = @ + 1]
                    ELSE acc.score,
          log |-> Append(acc.log,
                     [award |-> push.award, result |-> r.result,
                      changed |-> \E n \in DOMAIN FourPixels(push.mutation.position) :
                                     \E c \in {FourPixels(push.mutation.position)[n].coord} :
                                        TerrainPixel(acc.terrain, c) # TerrainPixel(r.terrain, c)]),
          panic |-> FALSE]

\* The drain of terrain_mutations (l.398-405), from the k-th push on.
RECURSIVE DrainTerrainMutations(_, _, _, _)
DrainTerrainMutations(acc, pushes, order, k) ==
    IF k > Len(pushes) \/ acc.panic THEN acc
    ELSE DrainTerrainMutations(
             DrainTerrainMutation(acc, pushes[order[k]],
                                  modify(acc.terrain, pushes[order[k]].mutation)),
             pushes, order, k + 1)

\* The world after the drains (l.388-426) and what the drain of
\* terrain_mutations logged.
Drained(w, tasks, mutated, reloads) ==
    [world |-> [terrain |-> mutated.terrain,
                score |-> mutated.score,
                reloads |-> reloads,
                flags |-> [p \in DrainPlayers |->
                              IF p \in ResetFlagPushes(w) THEN FALSE ELSE w.flags[p]],
                barrels |-> w.barrels + (IF tasks.barrel THEN 1 ELSE 0)],
     log |-> mutated.log,
     panic |-> mutated.panic]

\* World::physics as far as the accumulators go: the parallel pass fills
\* them, in the given orders, and the drains empty them.
PhysicsOutcome(w, tasks, order) ==
    Drained(w, tasks,
            DrainTerrainMutations(
                [terrain |-> w.terrain, score |-> w.score, log |-> <<>>, panic |-> FALSE],
                TerrainMutationPushes(w, tasks), order.terrain_mutations, 1),
            DrainLimitedReloads(w.reloads, LimitedReloadPushes(tasks),
                                order.limited_reloads, 1))

\* The boats of a tick: an icebreaker, a dredger and a cruiser, in and out
\* of the arctic, one collision from death.
DrainSubKinds == {"Icebreaker", "Dredger", "Cruiser"}

\* Collision points: on a pixel, and between it and the next pixel.
CollisionPoints == { <<4, 4>>, <<6, 4>> }

BoatTasks ==
    { [sub_kind |-> k, arctic |-> a, position |-> <<4, 4>>, collision |-> c, ticks |-> MaxHealth - 1] :
        k \in DrainSubKinds, a \in BOOLEAN, c \in CollisionPoints \cup {<<>>} }

DrainGenerators == {"ice", "sand", "shore"}

DrainInit ==
    /\ \E g \in DrainGenerators :
          dworld = [terrain |-> mut_chunk(Terrain(g), <<1, 1>>),
                    score |-> [p \in DrainPlayers |-> 0],
                    reloads |-> <<TicksMax, TicksMax, TicksMax>>,
                    flags |-> [p \in DrainPlayers |-> p = "P1"],
                    barrels |-> 0]
    /\ dbefore = dworld
    /\ dtasks = <<>>
    /\ dorder = <<>>
    /\ dlog = <<>>
    /\ dticks = 0

\* World::physics(delta): the parallel pass and the drains.
PhysicsDrain ==
    /\ dticks \in 0..(MaxDrainTicks - 1)
    /\ \E b1, b2 \in BoatTasks, e3, e4, barrel \in BOOLEAN :
          \E tasks \in {[boats |-> <<b1, b2>>, expired |-> (3 :> e3 @@ 4 :> e4),
                          barrel |-> barrel]} :
             \E otm \in TaskOrders(TerrainMutationPushes(dworld, tasks)),
                olr \in Orders(Len(LimitedReloadPushes(tasks))) :
                   \E order \in {[terrain_mutations |-> otm, limited_reloads |-> olr]} :
                      \E r \in {PhysicsOutcome(dworld, tasks, order)} :
                         /\ ~r.panic
                         /\ dtasks' = tasks
                         /\ dorder' = order
                         /\ dbefore' = dworld
                         /\ dworld' = r.world
                         /\ dlog' = r.log
    /\ dticks' = dticks + 1
    /\ UNCHANGED notDrainVars

DrainNext ==
    \/ PhysicsDrain

InitDrain ==
    DrainInit /\ MutIdle /\ GetIdle /\ CodecIdle /\ RectIdle /\ TerrainIdle /\ PhysIdle
              /\ ContactIdle /\ ParticleIdle /\ AltIdle /\ ModifyIdle /\ ApplyIdle /\ AzimuthIdle /\ ArmIdle /\ SyncIdle /\ FatesIdle /\ RegenIdle /\ AimIdle /\ UpdIdle /\ CollideIdle /\ BorderIdle /\ SurfaceIdle /\ BitmapIdle /\ ConvertIdle

SpecDrain == InitDrain /\ [][DrainNext]_vars

(***************************************************************************)
(* Claims about the accumulators of World::physics.                        *)
(***************************************************************************)

\* The orders the accumulators of the last physics could have been filled in.
AllOrders ==
    [terrain_mutations : TaskOrders(TerrainMutationPushes(dbefore, dtasks)),
     limited_reloads : Orders(Len(LimitedReloadPushes(dtasks)))]

\* C11: the world that World::physics leaves (terrain, scores, reloads,
\* flags) is the same for every order in which the parallel tasks appended
\* to the accumulators.
C11_OrderIndependent ==
    dticks > 0 =>
        \A order \in AllOrders : PhysicsOutcome(dbefore, dtasks, order).world = dworld

\* The last physics drained two terrain mutations of two boats.
C11_TwoMutations ==
    /\ dticks > 0
    /\ \E i, j \in 1..Len(dlog) : dlog[i].award = 1 /\ dlog[j].award = 2

\* The score a boat's player gained in the last physics.
ScoreGained(index) == dworld.score[BoatPlayer(index)] - dbefore.score[BoatPlayer(index)]

\* The drained terrain mutations of a boat that changed the terrain.
BreaksThatChanged(index) == {k \in 1..Len(dlog) : dlog[k].award = index /\ dlog[k].changed}

\* C17: in a physics tick the player of an icebreaker gains exactly 1 score
\* for each terrain-break mutation of that boat that changed the terrain and
\* nothing for a break that changed no pixel, the player of another boat
\* gains nothing; a lone icebreaker that moves into ice in the arctic, the
\* pixels around the collision point at altitude 1, lowers the terrain at the
\* collision point and scores 1.
C17_IcebreakerScore ==
    dticks > 0 =>
        /\ \A i \in BoatIndices :
              /\ ScoreGained(i) = Cardinality(BreaksThatChanged(i))
              /\ dtasks.boats[i].sub_kind # "Icebreaker" => ScoreGained(i) = 0
        /\ \A i \in BoatIndices :
              LET boat == dtasks.boats[i] IN
              ( /\ boat.sub_kind = "Icebreaker" /\ boat.arctic /\ boat.collision # <<>>
                /\ \A n \in DOMAIN FourPixels(boat.collision) :
                      StoredAltitude(dbefore.terrain, FourPixels(boat.collision)[n].coord) = 1
                /\ Len(dlog) = 1 )
              => /\ sample(dbefore.terrain, boat.collision) = 1
                 /\ sample(dworld.terrain, boat.collision) < 1
                 /\ ScoreGained(i) = 1

\* An icebreaker broke ice and scored while the break of the other
\* icebreaker, drained after it, changed nothing and scored nothing.
C17_Witness ==
    /\ dticks > 0
    /\ Len(dlog) = 2
    /\ dtasks.boats[1].sub_kind = "Icebreaker" /\ dtasks.boats[2].sub_kind = "Icebreaker"
    /\ \E i, j \in BoatIndices : ScoreGained(i) = 1 /\ ScoreGained(j) = 0
                                 /\ \E k \in 1..2 : dlog[k].award = j /\ ~dlog[k].changed

(***************************************************************************)
(* Turret::within_azimuth (common/src/entity.rs l.392-414).  Angle is not  *)
(* part of the sources at hand: it is a wrapped circular value whose       *)
(* differences are normalized to (-pi, pi].  A turn has 2^AngleBits units. *)
(***************************************************************************)

AngleBits == 4

AngleTurn == 2 ^ AngleBits

\* Angle::PI.
PI == AngleTurn \div 2

Angles == (1 - PI)..PI

\* The normalization of an angle to (-pi, pi].
AngleNorm(a) == IF a % AngleTurn > PI THEN (a % AngleTurn) - AngleTurn ELSE a % AngleTurn

\* Add, Sub and Neg of Angle.
AngleAdd(a, b) == AngleNorm(a + b)
AngleSub(a, b) == AngleNorm(a - b)
AngleNeg(a) == AngleNorm(0 - a)

\* struct Turret, as far as within_azimuth reads it.
Turret(angle, azimuth_fl, azimuth_fr, azimuth_bl, azimuth_br) ==
    [angle |-> angle, azimuth_fl |-> azimuth_fl, azimuth_fr |-> azimuth_fr,
     azimuth_bl |-> azimuth_bl, azimuth_br |-> azimuth_br]

\* The test on the front azimuth limits (l.405-406).
RestrictedFront(turret, curr) ==
    LET azimuth_f == AngleSub(curr, turret.angle)
    IN  AngleNeg(turret.azimuth_fr) < azimuth_f /\ azimuth_f < turret.azimuth_fl

\* A variant of the test on the back azimuth limits that restricts nothing.
RestrictedBackNever(turret, curr) == FALSE

\* The test on the back azimuth limits (l.410-411).
RestrictedBack(turret, curr) ==
    LET azimuth_b == AngleSub(AngleAdd(PI, curr), turret.angle)
    IN  AngleNeg(turret.azimuth_bl) < azimuth_b /\ azimuth_b < turret.azimuth_br

\* Turret::within_azimuth.
within_azimuth(turret, curr) ==
    IF RestrictedFront(turret, curr) THEN FALSE ELSE ~RestrictedBack(turret, curr)

\* Azimuth limits: none, narrow, and the widest below pi.
AzimuthLimits == {0, 2, PI - 1}

Turrets ==
    { Turret(a, fl, fr, bl, br) :
        a \in Angles, fl \in AzimuthLimits, fr \in AzimuthLimits,
        bl \in AzimuthLimits, br \in AzimuthLimits }

AzimuthInit ==
    /\ zturret = <<>>
    /\ zcurr = 0
    /\ zresult = FALSE
    /\ zcalls = 0

\* A call of turret.within_azimuth(curr).
WithinAzimuth ==
    /\ zcalls = 0
    /\ \E turret \in Turrets, curr \in Angles :
          /\ zturret' = turret
          /\ zcurr' = curr
          /\ zresult' = within_azimuth(turret, curr)
    /\ zcalls' = zcalls + 1
    /\ UNCHANGED notAzimuthVars

AzimuthNext ==
    \/ WithinAzimuth

InitAzimuth ==
    AzimuthInit /\ MutIdle /\ GetIdle /\ CodecIdle /\ RectIdle /\ TerrainIdle /\ PhysIdle
                /\ ContactIdle /\ ParticleIdle /\ AltIdle /\ ModifyIdle /\ ApplyIdle /\ DrainIdle /\ ArmIdle /\ SyncIdle /\ FatesIdle /\ RegenIdle /\ AimIdle /\ UpdIdle /\ CollideIdle /\ BorderIdle /\ SurfaceIdle /\ BitmapIdle /\ ConvertIdle

SpecAzimuth == InitAzimuth /\ [][AzimuthNext]_vars

\* The angle lies in the sector around the center that spans less than
\* `right` units to one side and less than `left` units to the other.
InSector(a, center, right, left) ==
    \E d \in (1 - right)..(left - 1) : (a - (center + d)) % AngleTurn = 0

\* C22: within_azimuth(angle) is true iff the angle lies outside both
\* restricted sectors, the one around the base angle from azimuth_fr on one
\* side to azimuth_fl on the other and the one around base + pi from
\* azimuth_bl to azimuth_br; with all four limits zero it is true.
C22_OutsideBothSectors ==
    zcalls > 0 =>
        /\ zresult =
              ( /\ ~InSector(zcurr, zturret.angle, zturret.azimuth_fr, zturret.azimuth_fl)
                /\ ~InSector(zcurr, zturret.angle + PI, zturret.azimuth_bl, zturret.azimuth_br) )
        /\ ( /\ zturret.azimuth_fl = 0 /\ zturret.azimuth_fr = 0
             /\ zturret.azimuth_bl = 0 /\ zturret.azimuth_br = 0 ) => zresult

\* An angle in the back sector only was refused.
C22_Witness ==
    /\ zcalls > 0
    /\ ~zresult
    /\ ~InSector(zcurr, zturret.angle, zturret.azimuth_fr, zturret.azimuth_fl)
    /\ InSector(zcurr, zturret.angle + PI, zturret.azimuth_bl, zturret.azimuth_br)

(***************************************************************************)
(* Mk48Game::find_best_armament (client/src/armament.rs l.18-97).  Contact,*)
(* the catalog and Transform are not part of the sources at hand: the boat *)
(* of the player has five armaments, two of them on its turret, and what   *)
(* the transforms and the mouse position make of an armament is its aim:   *)
(* the angle to the target in degrees and the squared distance to it.      *)
(* Armaments are counted from 1.                                           *)
(***************************************************************************)

\* EntityData of what an armament spawns: kind, sub_kind and whether
\* sensors.sonar.range > 0.
ArmamentData(entity_type) ==
    CASE entity_type = "Shell" -> [kind |-> "Weapon", sub_kind |-> "Shell", sonar |-> FALSE]
      [] entity_type = "Mark18" -> [kind |-> "Weapon", sub_kind |-> "Torpedo", sonar |-> FALSE]
      [] entity_type = "Mark48" -> [kind |-> "Weapon", sub_kind |-> "Torpedo", sonar |-> TRUE]
      [] entity_type = "Mine" -> [kind |-> "Weapon", sub_kind |-> "Mine", sonar |-> FALSE]

\* No turret: Armament.turret is None.
NoTurret == 0

\* EntityData.armaments and EntityData.turrets of the boat.
PlayerArmaments ==
    << [entity_type |-> "Shell", turret |-> 1, vertical |-> FALSE],
       [entity_type |-> "Shell", turret |-> 1, vertical |-> FALSE],
       [entity_type |-> "Mark18", turret |-> NoTurret, vertical |-> FALSE],
       [entity_type |-> "Mark48", turret |-> NoTurret, vertical |-> FALSE],
       [entity_type |-> "Mine", turret |-> NoTurret, vertical |-> FALSE] >>

PlayerTurrets == << Turret(0, 2, 2, 0, 0) >>

\* No armament selection, no best armament.
NoSelection == <<>>
NoBest == <<>>

\* The armament is of the selected kind and sub kind (l.34-39).
RightType(armament, armament_selection) ==
    /\ ArmamentData(armament.entity_type).kind = armament_selection[1]
    /\ ArmamentData(armament.entity_type).sub_kind = armament_selection[2]

\* The turret of the armament, if it has one, is within its azimuth limits
\* (l.46-54).
TurretWithinAzimuth(contact, armament) ==
    armament.turret # NoTurret =>
        within_azimuth(PlayerTurrets[armament.turret], contact.turrets[armament.turret])

\* angle_diff after the armaments that are not constrained by direction
\* have set it to zero (l.63-75).
AngleDiff(armament, aim) ==
    IF \/ armament.vertical
       \/ ArmamentData(armament.entity_type).kind = "Aircraft"
       \/ ArmamentData(armament.entity_type).sub_kind \in {"Depositor", "DepthCharge", "Mine"}
    THEN 0
    ELSE aim[1]

\* max_angle_diff, in degrees (l.77-85).
MaxAngleDiff(entity_type) ==
    CASE ArmamentData(entity_type).sub_kind = "Shell" -> 30
      [] ArmamentData(entity_type).sub_kind = "Rocket" -> 45
      [] ArmamentData(entity_type).sub_kind = "RocketTorpedo" -> 75
      [] ArmamentData(entity_type).sub_kind = "Torpedo" /\ ArmamentData(entity_type).sonar -> 150
      [] OTHER -> 90

\* score: angle_diff.to_degrees().powi(2) + distance_squared (l.88).
ArmamentScore(armament, aim) == AngleDiff(armament, aim) * AngleDiff(armament, aim) + aim[2]

\* A variant of the comparison of scores that also takes an equal score.
ScoreNotWorse(score, best) == best = NoBest \/ score <= best[2]

\* best_armament.map(|(_, s)| score < s).unwrap_or(true) (l.89).
ScoreBetter(score, best) == best = NoBest \/ score < best[2]

\* One iteration of the loop over the armaments (l.30-93): best_armament
\* after it.
VisitArmament(best, contact, angle_limit, armament_selection, i) ==
    IF ~RightType(PlayerArmaments[i], armament_selection) THEN best
    ELSE IF contact.reloads[i] # 0 THEN best
    ELSE IF ~TurretWithinAzimuth(contact, PlayerArmaments[i]) THEN best
    ELSE IF /\ ~angle_limit \/ AngleDiff(PlayerArmaments[i], contact.aims[i])
                                  < MaxAngleDiff(PlayerArmaments[i].entity_type)
            /\ ScoreBetter(ArmamentScore(PlayerArmaments[i], contact.aims[i]), best)
         THEN <<i, ArmamentScore(PlayerArmaments[i], contact.aims[i])>>
         ELSE best

\* The loop from the i-th armament on.
RECURSIVE VisitArmamentsFrom(_, _, _, _, _)
VisitArmamentsFrom(best, contact, angle_limit, armament_selection, i) ==
    IF i > Len(PlayerArmaments) THEN best
    ELSE VisitArmamentsFrom(
             VisitArmament(best, contact, angle_limit, armament_selection, i),
             contact, angle_limit, armament_selection, i + 1)

\* Mk48Game::find_best_armament: the index of the best armament, or None.
find_best_armament(contact, angle_limit, armament_selection) ==
    IF armament_selection = NoSelection THEN None
    ELSE IF VisitArmamentsFrom(NoBest, contact, angle_limit, armament_selection, 1) = NoBest
         THEN None
         ELSE VisitArmamentsFrom(NoBest, contact, angle_limit, armament_selection, 1)[1]

\* The aims: at the target and close, 40 degrees off, 100 degrees off and
\* closer.
Aims == { <<0, 4>>, <<40, 4>>, <<100, 1>> }

ArmamentSelections ==
    { NoSelection, <<"Weapon", "Shell">>, <<"Weapon", "Torpedo">>, <<"Weapon", "Mine">> }

\* The turret at its base angle, within its front limits, and a quarter turn
\* off.
TurretAngles == {0, PI \div 2}

PlayerContacts ==
    [reloads : [1..Len(PlayerArmaments) -> {0, 3}],
     turrets : {<<a>> : a \in TurretAngles},
     aims : [1..Len(PlayerArmaments) -> Aims]]

ArmInit ==
    /\ fcontact = <<>>
    /\ fselection = <<>>
    /\ flimit = FALSE
    /\ fresult = None
    /\ fcalls = 0

\* A call of find_best_armament.
FindBestArmament ==
    /\ fcalls = 0
    /\ \E contact \in PlayerContacts, angle_limit \in BOOLEAN,
          armament_selection \in ArmamentSelections :
          /\ fcontact' = contact
          /\ flimit' = angle_limit
          /\ fselection' = armament_selection
          /\ fresult' = find_best_armament(contact, angle_limit, armament_selection)
    /\ fcalls' = fcalls + 1
    /\ UNCHANGED notArmVars

ArmNext ==
    \/ FindBestArmament

InitArm ==
    ArmInit /\ MutIdle /\ GetIdle /\ CodecIdle /\ RectIdle /\ TerrainIdle /\ PhysIdle
            /\ ContactIdle /\ ParticleIdle /\ AltIdle /\ ModifyIdle /\ ApplyIdle /\ DrainIdle
            /\ AzimuthIdle /\ SyncIdle /\ FatesIdle /\ RegenIdle /\ AimIdle /\ UpdIdle /\ CollideIdle /\ BorderIdle /\ SurfaceIdle /\ BitmapIdle /\ ConvertIdle

SpecArm == InitArm /\ [][ArmNext]_vars

\* The armaments of the last call that can be fired: of the selected type,
\* reloaded, their turret within azimuth, the angle limit off or satisfied.
EligibleArmaments ==
    IF fselection = NoSelection THEN {}
    ELSE {i \in 1..Len(PlayerArmaments) :
            /\ RightType(PlayerArmaments[i], fselection)
            /\ fcontact.reloads[i] = 0
            /\ TurretWithinAzimuth(fcontact, PlayerArmaments[i])
            /\ \/ ~flimit
               \/ AngleDiff(PlayerArmaments[i], fcontact.aims[i])
                     < MaxAngleDiff(PlayerArmaments[i].entity_type)}

\* The eligible armaments of the least score.
BestArmaments ==
    {i \in EligibleArmaments :
        \A j \in EligibleArmaments :
            ArmamentScore(PlayerArmaments[i], fcontact.aims[i])
                <= ArmamentScore(PlayerArmaments[j], fcontact.aims[j])}

\* C21: find_best_armament returns the index of an eligible armament of the
\* minimum score, the lowest index of those that tie on it, whatever the
\* order of the armaments; it returns None iff no armament is eligible.
C21_LowestIndexOfBest ==
    fcalls > 0 =>
        /\ fresult = None <=> EligibleArmaments = {}
        /\ fresult # None =>
              /\ fresult \in BestArmaments
              /\ \A j \in BestArmaments : fresult <= j

\* Two eligible armaments tied on the minimum score and the lower index was
\* returned.
C21_Witness ==
    /\ fcalls > 0
    /\ Cardinality(BestArmaments) >= 2
    /\ fresult \in BestArmaments
    /\ \E j \in BestArmaments : fresult < j

(***************************************************************************)
(* The Terrain of the server and of one client: the writes of a tick,      *)
(* pre_update, the broadcast, post_update; the client applies the          *)
(* TerrainUpdate (Mk48State::apply, client/src/state.rs) and redraws.      *)
(***************************************************************************)

\* The ticks of the server: one more than MaxTicks, so that a chunk written
\* in the first tick is regenerated by a post_update and broadcast again.
SyncTicks == MaxTicks + 1

\* The calls of Terrain::set of one tick.
SyncWrites == 2

\* The pixels written; two of one chunk whose cells in updated_rects are apart.
SyncCoords == {Coord(0, 0), Coord(3, 2), Coord(CHUNK_SIZE, 1)}

\* Terrain::clear_updated
clear_updated(t) ==
    [t EXCEPT
        !.updated = ChunkSetNew,
        !.chunks = [id \in TerrainChunkIds |->
            IF id \in t.updated
            THEN [mut_chunk(t, id).chunks[id] EXCEPT !.update = UpdateNone]
            ELSE t.chunks[id]]]

\* clear_updated that leaves the update of the chunks in place.
clear_updated_keeps(t) == [t EXCEPT !.updated = ChunkSetNew]

\* The per-client part of the broadcast: a chunk the client has not been sent
\* goes in full, a chunk it has and that is in Terrain.updated goes as
\* to_serialized_chunk(true) gives it; the chunks in ascending order.
SyncItem(t, known, chunk_id) ==
    [chunk_id |-> chunk_id,
     serialized |-> to_serialized_chunk(t.chunks[chunk_id], chunk_id \in known, FALSE)]

SyncUpdate(t, known) ==
    LET ids == SortedCoords({id \in Allocated(t) : id \notin known \/ id \in t.updated})
    IN  [k \in 1..Len(ids) |-> SyncItem(t, known, ids[k])]

\* The pixels that differ between two Terrains of the client, the pixels of a
\* chunk not yet generated being those its generation gives.
PixelsModified(old, new) ==
    {<<id, c>> \in Allocated(new) \X ChunkCoords :
        ChunkAt(mut_chunk(old, id).chunks[id].data, c) # ChunkAt(new.chunks[id].data, c)}

\* The server with the "zero" generator; the client's Terrain::default().
SyncInit ==
    /\ sserver = Terrain("zero")
    /\ sclient = Terrain("zero")
    /\ sknown = {}
    /\ sflight = <<>>
    /\ sshot = <<>>
    /\ sdirty = {}
    /\ sphase = "write"
    /\ snow = 0
    /\ swrites = 0

\* Terrain::set on the server during the tick.
SyncWrite(coord, value) ==
    /\ sphase = "write"
    /\ snow < SyncTicks
    /\ swrites < SyncWrites
    /\ \E r \in {TerrainSet(sserver, coord, value, snow)} :
          /\ r # Panic
          /\ r.changed
          /\ sserver' = r.terrain
    /\ swrites' = swrites + 1
    /\ UNCHANGED <<sclient, sknown, sflight, sshot, sdirty, sphase, snow>>
    /\ UNCHANGED notSyncVars

\* Terrain::pre_update on the server, once the writes of the tick are done.
SyncPreUpdate ==
    /\ sphase = "write"
    /\ snow < SyncTicks
    /\ \E r \in {pre_update(sserver)} :
          /\ r # Panic
          /\ sserver' = r
    /\ sphase' = "pre_updated"
    /\ UNCHANGED <<sclient, sknown, sflight, sshot, sdirty, snow, swrites>>
    /\ UNCHANGED notSyncVars

\* The broadcast of the tick to the client, once it applied the last one.
SyncBroadcast ==
    /\ sphase = "pre_updated"
    /\ Len(sflight) = 0
    /\ sflight' = << SyncUpdate(sserver, sknown) >>
    /\ sknown' = Allocated(sserver)
    /\ sshot' = [id \in Allocated(sserver) |-> sserver.chunks[id].data]
    /\ sphase' = "broadcast"
    /\ UNCHANGED <<sserver, sclient, sdirty, snow, swrites>>
    /\ UNCHANGED notSyncVars

\* Terrain::post_update on the server, after the broadcast.
SyncPostUpdate ==
    /\ sphase = "broadcast"
    /\ sserver' = post_update(sserver, snow)
    /\ snow' = snow + 1
    /\ swrites' = 0
    /\ sphase' = "write"
    /\ UNCHANGED <<sclient, sknown, sflight, sshot, sdirty>>
    /\ UNCHANGED notSyncVars

\* Mk48State::apply on the client: self.terrain.apply_update(&update.terrain).
SyncApply ==
    /\ Len(sflight) = 1
    /\ \E r \in {apply_update(sclient, sflight[1])} :
          /\ r.result = "ok"
          /\ sclient' = r.terrain
          /\ sdirty' = sdirty \cup PixelsModified(sclient, r.terrain)
    /\ sflight' = <<>>
    /\ UNCHANGED <<sserver, sknown, sshot, sphase, snow, swrites>>
    /\ UNCHANGED notSyncVars

\* The redraw of the client: updated_rects of the updated chunks are drawn,
\* then Terrain::clear_updated.
SyncRedraw ==
    /\ sclient.updated # {}
    /\ sclient' = clear_updated(sclient)
    /\ sdirty' = {}
    /\ UNCHANGED <<sserver, sknown, sflight, sshot, sphase, snow, swrites>>
    /\ UNCHANGED notSyncVars

SyncNext ==
    \/ \E coord \in SyncCoords, value \in TerrainValues : SyncWrite(coord, value)
    \/ SyncPreUpdate
    \/ SyncBroadcast
    \/ SyncPostUpdate
    \/ SyncApply
    \/ SyncRedraw

InitSync ==
    SyncInit /\ MutIdle /\ GetIdle /\ CodecIdle /\ RectIdle /\ TerrainIdle /\ PhysIdle
             /\ ContactIdle /\ ParticleIdle /\ AltIdle /\ ModifyIdle /\ ApplyIdle /\ DrainIdle
             /\ AzimuthIdle /\ ArmIdle /\ FatesIdle /\ RegenIdle /\ AimIdle /\ UpdIdle /\ CollideIdle /\ BorderIdle /\ SurfaceIdle /\ BitmapIdle /\ ConvertIdle

SpecSync == InitSync /\ [][SyncNext]_vars

\* C25: once the client, which was sent every chunk in full first, has
\* applied the TerrainUpdate of a broadcast, its pixels of every chunk equal
\* the server's pixels of that chunk at that broadcast.
C25_ClientEqualsServerAtBroadcast ==
    Len(sflight) = 0 =>
        \A id \in DOMAIN sshot :
            /\ sclient.chunks[id] # NoChunk
            /\ sclient.chunks[id].data = sshot[id]

\* The client has applied the update of the third broadcast, which carried a
\* chunk regenerated by post_update and a mod stream, after a full chunk.
C25_Witness ==
    /\ Len(sflight) = 0
    /\ snow = SyncTicks - 1
    /\ sphase = "broadcast"
    /\ \E id \in DOMAIN sshot :
          /\ sclient.chunks[id].update.kind = "Coords"
          /\ sclient.chunks[id].data = sshot[id]
          /\ sshot[id] # ChunkNew(id, "zero")
    /\ \E id \in DOMAIN sshot :
          /\ sclient.chunks[id].update.kind = "Complete"
          /\ sserver.chunks[id].update.kind = "Complete"
          /\ sclient.chunks[id].data = sshot[id]

\* The cells of the rectangles of updated_rects of a chunk.
UpdatedCells(chunk) ==
    LET rects == updated_rects(chunk)
    IN  UNION {RectCells(rects[k]) : k \in 1..Len(rects)}

\* C26: the rectangles of updated_rects of a chunk of the client cover every
\* pixel of the chunk that the apply_update calls since the last
\* clear_updated modified.
C26_RectsCoverModifiedPixels ==
    \A d \in sdirty :
        /\ d[1] \in sclient.updated
        /\ d[2] \in UpdatedCells(sclient.chunks[d[1]])

(***************************************************************************)
(* World::physics after the parallel pass: the limited reloads, the awards *)
(* of the terrain mutations, the barrels, then the fates sorted in         *)
(* descending index order and applied (world_physics.rs).  An EntityIndex  *)
(* is a sector and a place in the sector; Entities::remove fills the place *)
(* of a removed entity with the last entity of its sector, and a spawned   *)
(* or moved entity goes to the end of its sector.  Every entity carries an *)
(* identity that no index operation changes.                               *)
(***************************************************************************)

\* The barrels and the loot spawned in a tick.
MaxSpawns == 1

\* The sectors of the model's world.
SectorIds == {1, 2}

\* An entity: its identity, its type and the identity of its player's boat.
FateEntity(id, entity_type, boat) == [id |-> id, entity_type |-> entity_type, boat |-> boat]

\* struct EntityIndex(SectorId, SectorIndex)
EntityIndex(sector_id, i) == <<sector_id, i>>

\* The indices of the entities of the world.
FateIndices(sectors) ==
    UNION { {EntityIndex(s, i) : i \in 1..Len(sectors[s])} : s \in SectorIds }

\* impl Index<EntityIndex> for Entities
EntityAt(sectors, index) == sectors[index[1]][index[2]]

\* #[derive(Ord)] on EntityIndex: a.cmp(b) = Less
IndexLess(a, b) == a[1] < b[1] \/ (a[1] = b[1] /\ a[2] < b[2])

\* Vec::swap_remove on the sector: the last entity takes the place.
SwapRemove(sector, i) ==
    IF i = Len(sector) THEN SubSeq(sector, 1, Len(sector) - 1)
    ELSE SubSeq([sector EXCEPT ![i] = sector[Len(sector)]], 1, Len(sector) - 1)

\* Entities::remove
EntitiesRemove(sectors, index) ==
    [sectors EXCEPT ![index[1]] = SwapRemove(@, index[2])]

\* Entities::add (World::spawn_static, World::spawn_here_or_nearby)
EntitiesAdd(sectors, sector_id, entity) ==
    [sectors EXCEPT ![sector_id] = Append(@, entity)]

\* Entities::move_sector: out of its sector and to the end of the new one.
EntitiesMoveSector(sectors, index, sector_id) ==
    EntitiesAdd(EntitiesRemove(sectors, index), sector_id, EntityAt(sectors, index))

\* The fate of an entity of the parallel pass, with the identity of the
\* entity it was returned for.
FateRecord(index, fate, id) == [index |-> index, fate |-> fate, id |-> id]

\* The fates an entity can be given (l.74-104).
FatesOf(entity_type) ==
    CASE entity_type = "Hq" -> {"None", "DowngradeHq"}
      [] entity_type \in {"Boat", "Weapon"} -> {"None", "Remove", "MoveSector"}
      [] OTHER -> {"None"}

\* fates.par_sort_unstable_by(|a, b| a.0.cmp(&b.0)): ascending.
RECURSIVE SortFatesAscending(_)
SortFatesAscending(fates) ==
    IF Len(fates) = 0 THEN <<>>
    ELSE LET k == CHOOSE k \in 1..Len(fates) :
                    \A j \in 1..Len(fates) : j = k \/ IndexLess(fates[k].index, fates[j].index)
         IN  <<fates[k]>> \o
             SortFatesAscending(SubSeq(fates, 1, k - 1) \o SubSeq(fates, k + 1, Len(fates)))

\* fates.par_sort_unstable_by(|a, b| b.0.cmp(&a.0)): descending.
RECURSIVE SortFatesDescending(_)
SortFatesDescending(fates) ==
    IF Len(fates) = 0 THEN <<>>
    ELSE LET k == CHOOSE k \in 1..Len(fates) :
                    \A j \in 1..Len(fates) : j = k \/ IndexLess(fates[j].index, fates[k].index)
         IN  <<fates[k]>> \o
             SortFatesDescending(SubSeq(fates, 1, k - 1) \o SubSeq(fates, k + 1, Len(fates)))

\* The entities of the world in ascending index order.
RECURSIVE IndicesFrom(_, _, _)
IndicesFrom(sectors, s, i) ==
    IF s \notin SectorIds THEN <<>>
    ELSE IF i > Len(sectors[s]) THEN IndicesFrom(sectors, s + 1, 1)
    ELSE <<EntityIndex(s, i)>> \o IndicesFrom(sectors, s, i + 1)

\* .filter_map(|(index, entity)| ...).collect(): one (index, fate) for every
\* entity that is given a fate.
RECURSIVE CollectFates(_, _, _, _)
CollectFates(sectors, choice, indices, k) ==
    IF k > Len(indices) THEN <<>>
    ELSE (IF choice[indices[k]] = "None" THEN <<>>
          ELSE <<FateRecord(indices[k], choice[indices[k]], EntityAt(sectors, indices[k]).id)>>)
         \o CollectFates(sectors, choice, indices, k + 1)

\* The index of the boat of identity id (Status::Alive { entity_index }).
BoatIndex(sectors, id) ==
    CHOOSE ix \in FateIndices(sectors) : EntityAt(sectors, ix).id = id

\* The records pushed for the indices of S, with the identity of the entity
\* at each index when it was pushed.
Recorded(sectors, S) ==
    LET indices == SelectSeq(IndicesFrom(sectors, 1, 1), LAMBDA ix : ix \in S)
    IN  [k \in 1..Len(indices) |->
            [index |-> indices[k], id |-> EntityAt(sectors, indices[k]).id]]

\* The sector an entity moves to.
OtherSector(sector_id) == IF sector_id = 1 THEN 2 ELSE 1

\* The worlds a tick starts with.
FateWorlds ==
    { << <<FateEntity(1, "Boat", 1), FateEntity(2, "Weapon", 1), FateEntity(3, "Hq", 0)>>,
         <<FateEntity(4, "Boat", 4), FateEntity(5, "Weapon", 4)>> >>,
      << <<FateEntity(1, "Weapon", 2), FateEntity(2, "Boat", 2)>>,
         <<FateEntity(3, "Weapon", 2), FateEntity(4, "Hq", 0), FateEntity(5, "Boat", 5)>> >> }

FatesInit ==
    /\ xsectors \in FateWorlds
    /\ xnext = 0
    /\ xfates = <<>>
    /\ xreloads = <<>>
    /\ xawards = <<>>
    /\ xphase = "pass"
    /\ xlog = <<>>

\* The parallel pass (l.67-386): every entity is given at most one fate; a
\* removed weapon may push the index of its player's boat to limited_reloads,
\* a boat may push a terrain mutation that awards its index.
FatesPass ==
    /\ xphase = "pass"
    /\ \E choice \in [FateIndices(xsectors) -> {"None", "Remove", "MoveSector", "DowngradeHq"}] :
          /\ \A ix \in FateIndices(xsectors) :
                choice[ix] \in FatesOf(EntityAt(xsectors, ix).entity_type)
          /\ xfates' = CollectFates(xsectors, choice, IndicesFrom(xsectors, 1, 1), 1)
          /\ \E reloaded \in SUBSET {ix \in FateIndices(xsectors) :
                                        /\ EntityAt(xsectors, ix).entity_type = "Weapon"
                                        /\ choice[ix] = "Remove"} :
                xreloads' = Recorded(xsectors,
                                {BoatIndex(xsectors, EntityAt(xsectors, ix).boat) : ix \in reloaded})
    /\ \E awarded \in SUBSET {ix \in FateIndices(xsectors) :
                                 EntityAt(xsectors, ix).entity_type = "Boat"} :
          xawards' = Recorded(xsectors, awarded)
    /\ xphase' = "reloads"
    /\ UNCHANGED <<xsectors, xnext, xlog>>
    /\ UNCHANGED notFatesVars

\* for (player_entity_index, limited_entity_type) in limited_reloads (l.389-396)
FatesReloads ==
    /\ xphase = "reloads"
    /\ xlog' = xlog \o [k \in 1..Len(xreloads) |->
                           [kind |-> "reload", index |-> xreloads[k].index,
                            same |-> EntityAt(xsectors, xreloads[k].index).id = xreloads[k].id,
                            moved |-> FALSE]]
    /\ xreloads' = <<>>
    /\ xphase' = "awards"
    /\ UNCHANGED <<xsectors, xnext, xfates, xawards>>
    /\ UNCHANGED notFatesVars

\* for (mutation, award_entity_index) in terrain_mutations (l.398-405)
FatesAwards ==
    /\ xphase = "awards"
    /\ xlog' = xlog \o [k \in 1..Len(xawards) |->
                           [kind |-> "award", index |-> xawards[k].index,
                            same |-> EntityAt(xsectors, xawards[k].index).id = xawards[k].id,
                            moved |-> FALSE]]
    /\ xawards' = <<>>
    /\ xphase' = "barrels"
    /\ UNCHANGED <<xsectors, xnext, xfates, xreloads>>
    /\ UNCHANGED notFatesVars

\* The barrels are spawned and the flags reset (l.407-426), then the fates
\* are sorted (l.429).
FatesBarrelsAndSort ==
    /\ xphase = "barrels"
    /\ \/ UNCHANGED <<xsectors, xnext>>
       \/ \E s \in SectorIds :
             /\ xnext < MaxSpawns
             /\ xsectors' = EntitiesAdd(xsectors, s, FateEntity(10 + xnext, "Barrel", 0))
             /\ xnext' = xnext + 1
    /\ xfates' = SortFatesDescending(xfates)
    /\ xphase' = "fates"
    /\ UNCHANGED <<xreloads, xawards, xlog>>
    /\ UNCHANGED notFatesVars

\* Fate::Remove of a boat: Mutation::boat_died may spawn loot, then
\* World::remove; of another entity: World::remove.
FateRemove(index, loot_sector) ==
    IF loot_sector \in SectorIds
    THEN /\ EntityAt(xsectors, index).entity_type = "Boat"
         /\ xnext < MaxSpawns
         /\ xsectors' = EntitiesRemove(
                            EntitiesAdd(xsectors, loot_sector, FateEntity(10 + xnext, "Loot", 0)),
                            index)
         /\ xnext' = xnext + 1
    ELSE /\ xsectors' = EntitiesRemove(xsectors, index)
         /\ UNCHANGED xnext

\* One turn of for (index, fate) in fates (l.431-479).
FatesApply ==
    /\ xphase = "fates"
    /\ Len(xfates) > 0
    /\ \E f \in {Head(xfates)} :
          /\ f.index \in FateIndices(xsectors)
          /\ xlog' = Append(xlog, [kind |-> "fate", index |-> f.index,
                                   same |-> EntityAt(xsectors, f.index).id = f.id,
                                   moved |-> /\ f.fate \in {"Remove", "MoveSector"}
                                             /\ f.index[2] < Len(xsectors[f.index[1]])])
          /\ CASE f.fate = "Remove" ->
                     \E loot_sector \in SectorIds \cup {0} : FateRemove(f.index, loot_sector)
               [] f.fate = "MoveSector" ->
                     /\ xsectors' = EntitiesMoveSector(xsectors, f.index, OtherSector(f.index[1]))
                     /\ UNCHANGED xnext
               [] f.fate = "DowngradeHq" ->
                     /\ xsectors' = [xsectors EXCEPT ![f.index[1]][f.index[2]].entity_type = "OilPlatform"]
                     /\ UNCHANGED xnext
    /\ xfates' = Tail(xfates)
    /\ UNCHANGED <<xreloads, xawards, xphase>>
    /\ UNCHANGED notFatesVars

\* The loop is over.
FatesDone ==
    /\ xphase = "fates"
    /\ Len(xfates) = 0
    /\ xphase' = "done"
    /\ UNCHANGED <<xsectors, xnext, xfates, xreloads, xawards, xlog>>
    /\ UNCHANGED notFatesVars

FatesNext ==
    \/ FatesPass
    \/ FatesReloads
    \/ FatesAwards
    \/ FatesBarrelsAndSort
    \/ FatesApply
    \/ FatesDone

InitFates ==
    FatesInit /\ MutIdle /\ GetIdle /\ CodecIdle /\ RectIdle /\ TerrainIdle /\ PhysIdle
              /\ ContactIdle /\ ParticleIdle /\ AltIdle /\ ModifyIdle /\ ApplyIdle /\ DrainIdle
              /\ AzimuthIdle /\ ArmIdle /\ SyncIdle /\ RegenIdle /\ AimIdle /\ UpdIdle /\ CollideIdle /\ BorderIdle /\ SurfaceIdle /\ BitmapIdle /\ ConvertIdle

SpecFates == InitFates /\ [][FatesNext]_vars

\* The fates applied so far, in the order of their application.
FatesLogged == SelectSeq(xlog, LAMBDA r : r.kind = "fate")

\* C27: every entity has at most one fate; the limited reloads and the
\* awards are applied before any fate, at indices that still designate the
\* entity they were recorded for; the fates are applied in strictly
\* descending index order, and every fate still pending designates the
\* entity it was returned for.
C27_FatesAfterRecordsDescending ==
    /\ \A j, k \in 1..Len(xfates) : j # k => xfates[j].id # xfates[k].id
    /\ \A j, k \in 1..Len(xlog) :
          (j < k /\ xlog[j].kind = "fate") => xlog[k].kind = "fate"
    /\ Len(FatesLogged) > 0 => (Len(xreloads) = 0 /\ Len(xawards) = 0)
    /\ \A k \in 1..Len(xlog) : xlog[k].same
    /\ \A k \in 1..(Len(FatesLogged) - 1) :
          IndexLess(FatesLogged[k + 1].index, FatesLogged[k].index)
    /\ xphase = "fates" =>
          \A k \in 1..Len(xfates) :
             /\ xfates[k].index \in FateIndices(xsectors)
             /\ EntityAt(xsectors, xfates[k].index).id = xfates[k].id

\* A reload and an award were applied, then a removal put the last entity of
\* a sector in the place of the removed one while a fate was pending in the
\* same sector.
C27_Witness ==
    /\ xphase = "fates"
    /\ Len(xfates) > 0
    /\ \E j, k \in 1..Len(xlog) : xlog[j].kind = "reload" /\ xlog[k].kind = "award"
    /\ \E k \in 1..Len(xlog) :
          /\ xlog[k].kind = "fate"
          /\ xlog[k].moved
          /\ xlog[k].index[1] = Head(xfates).index[1]
    /\ EntityAt(xsectors, Head(xfates).index).id = Head(xfates).id

(***************************************************************************)
(* Claims about the mutations of one entity that concur in a tick.         *)
(***************************************************************************)

\* A HitBy or CollidedWithBoat whose damage kills the entity as the tick
\* found it.
Lethal(m) ==
    /\ m.type \in {"HitBy", "CollidedWithBoat"}
    /\ EntityDied(EntityDamage(InitWorld, m.damage))

\* A cause of death due to another player, and the player it names.
PlayerCause(m) == Lethal(m) \/ (m.type = "Remove" /\ is_due_to_player(m.reason))

CausePlayer(m) == IF m.type = "Remove" THEN m.reason.player ELSE m.other_player

\* A cause of death not due to a player.
NonPlayerCause(m) ==
    m.type = "Remove" /\ m.reason.kind \in {"Unknown", "Border", "Terrain", "Entity"}

\* C28: when a cause of death due to another player and one not due to a
\* player are queued for the entity in one tick, the entity dies of the one
\* due to the player: the death reason names that player and that player's
\* score has grown.
C28_PlayerCauseApplied ==
    (/\ mpc = "drained"
     /\ \E i, j \in 1..Len(mutations) :
           PlayerCause(mutations[i]) /\ NonPlayerCause(mutations[j])) =>
        /\ ~world.present
        /\ is_due_to_player(world.death_reason)
        /\ \E i \in 1..Len(mutations) :
              /\ PlayerCause(mutations[i])
              /\ world.death_reason.player = CausePlayer(mutations[i])
              /\ world.score[CausePlayer(mutations[i])] > InitWorld.score[CausePlayer(mutations[i])]

\* The places of the queue that hold a mutation of the variant.
OfType(type) == {i \in 1..Len(mutations) : mutations[i].type = type}

\* The drain reached every mutation of the variant: none was discarded
\* because the entity had been removed.
Reached(type) == OfType(type) \subseteq AppliedSeqs

\* The place in applied of the last mutation of the variant that was applied.
LastApplied(type) ==
    CHOOSE k \in 1..Len(applied) :
        /\ applied[k].m.type = type
        /\ \A j \in (k + 1)..Len(applied) : applied[j].m.type # type

\* C29: of several Guidance mutations that the drain applies to the entity in
\* one tick, the last applied has the largest signal_strength, the
\* direction_target is its own, and the altitude is one step towards its
\* altitude_target: no other Guidance changed anything.
C29_OneGuidanceTakesEffect ==
    (/\ mpc = "drained"
     /\ Cardinality(OfType("Guidance")) >= 2
     /\ Reached("Guidance")) =>
        LET g == applied[LastApplied("Guidance")].m
        IN  /\ \A i \in OfType("Guidance") : mutations[i].signal_strength <= g.signal_strength
            /\ world.direction_target = g.direction_target
            /\ world.altitude =
                  ApplyAltitudeTarget(InitWorld, g.altitude_target, 5, mdelta).altitude

\* Two Guidance mutations were queued with the stronger signal first, the
\* drain applied both and the stronger one took effect.
C29_Witness ==
    /\ mpc = "drained"
    /\ Len(mutations) >= 2
    /\ mutations[1].type = "Guidance"
    /\ mutations[2].type = "Guidance"
    /\ mutations[1].signal_strength > mutations[2].signal_strength
    /\ Reached("Guidance")
    /\ world.direction_target = mutations[1].direction_target
    /\ world.altitude = ApplyAltitudeTarget(InitWorld, mutations[1].altitude_target, 5, mdelta).altitude
    /\ world.altitude # InitWorld.altitude

\* C30: of several Attraction mutations that the drain applies to the entity
\* in one tick, the last applied has the smallest delta, and the direction
\* and the velocity of the entity are those of that Attraction when only
\* Guidance mutations follow it.
C30_ClosestAttractionLast ==
    (/\ mpc = "drained"
     /\ Cardinality(OfType("Attraction")) >= 2
     /\ Reached("Attraction")) =>
        LET k == LastApplied("Attraction")
            a == applied[k].m
        IN  /\ \A i \in OfType("Attraction") :
                  length_squared(a.delta) <= length_squared(mutations[i].delta)
            /\ (\A j \in (k + 1)..Len(applied) : applied[j].m.type = "Guidance") =>
                  /\ world.direction = AngleFrom(a.delta)
                  /\ world.velocity = a.velocity

\* Two Attraction mutations were queued with the closer one first, the drain
\* applied the farther one before it and the closer one took effect.
C30_Witness ==
    /\ mpc = "drained"
    /\ Len(mutations) >= 2
    /\ mutations[1].type = "Attraction"
    /\ mutations[2].type = "Attraction"
    /\ length_squared(mutations[1].delta) < length_squared(mutations[2].delta)
    /\ Reached("Attraction")
    /\ applied[Len(applied)].seq = 1
    /\ world.direction = AngleFrom(mutations[1].delta)
    /\ world.velocity = mutations[1].velocity
    /\ world.velocity # mutations[2].velocity

\* C31: of several CollectedBy mutations that the drain reaches in one tick,
\* exactly one is applied, the one enqueued first: its player's score grows
\* by its score, no other score changes, and the collectible is removed
\* once, with the reason Unknown.
C31_CollectedOnce ==
    (/\ mpc = "drained"
     /\ Cardinality(OfType("CollectedBy")) >= 2
     /\ \E k \in 1..Len(applied) : applied[k].m.type = "CollectedBy") =>
        LET k == LastApplied("CollectedBy")
            c == applied[k].m
        IN  /\ k = Len(applied)
            /\ \A j \in 1..Len(applied) : applied[j].m.type = "CollectedBy" <=> j = k
            /\ \A j \in 1..Len(applied) : applied[j].removed <=> j = k
            /\ \A i \in OfType("CollectedBy") : applied[k].seq <= i
            /\ \A p \in Players :
                  world.score[p] = InitWorld.score[p] + (IF p = c.player THEN c.score ELSE 0)
            /\ ~world.present
            /\ world.death_reason = DeathReason("Unknown", NoPlayer)

\* Two players collected the collectible in one tick; the first got the score.
C31_Witness ==
    /\ mpc = "drained"
    /\ Len(mutations) >= 2
    /\ mutations[1].type = "CollectedBy"
    /\ mutations[2].type = "CollectedBy"
    /\ mutations[1].player # mutations[2].player
    /\ Len(applied) = 1
    /\ world.score[mutations[1].player] = InitWorld.score[mutations[1].player] + mutations[1].score
    /\ world.score[mutations[2].player] = InitWorld.score[mutations[2].player]
    /\ ~world.present

\* The world as the k-th call of apply of the drain found it.
RECURSIVE WorldBefore(_)
WorldBefore(k) ==
    IF k <= 1 THEN InitWorld
    ELSE apply(applied[k - 1].m, WorldBefore(k - 1), mdelta,
               IsLastOfType(SortMutations(mutations), k - 1), debug_assertions).world

\* The scores of the players other than the victim and p are as before.
OthersKeepScore(before, p) ==
    \A q \in Players \ {"P0", p} : world.score[q] = before.score[q]

C32_WitnessSurvived ==
    /\ mpc = "drained"
    /\ Len(applied) >= 2
    /\ applied[Len(applied)].m.type = "CollidedWithBoat"
    /\ world.present
    /\ world.velocity = 15
    /\ InitWorld.velocity + applied[Len(applied)].m.impulse > 15

\* ---------------------------------------------------------------------------
\* The regeneration of an edited chunk: Terrain::set edits pixels of the chunk
\* of ChunkId(0, 0), then Terrain::post_update runs tick after tick
\* (terrain.rs).
\* ---------------------------------------------------------------------------

\* The edits of the chunk and the ticks that follow them.
MaxRegenEdits == 2
MaxRegenTicks == 17

RegenGenerators == {"zero", "full", "gradient"}
RegenCoords == {Coord(0, 0), Coord(3, 2)}
RegenValues == {0, 16, 128, 240}
RegenChunk == <<0, 0>>

\* The regenerations that bring the highest height (0xF0) to the lowest, one
\* nibble (0x10) at a time.
MaxRegenerations == 240 \div 16

RegenInit ==
    /\ \E g \in RegenGenerators : nterrain = Terrain(g)
    /\ nnow = 0
    /\ nphase = "edit"
    /\ nedits = 0
    /\ nregens = 0
    /\ nprev = <<>>
    /\ nstart = <<>>

\* Terrain::set of a pixel of the chunk.
RegenSet(coord, value) ==
    /\ nphase = "edit"
    /\ nedits < MaxRegenEdits
    /\ \E r \in {TerrainSet(nterrain, coord, value, nnow)} :
        /\ r # Panic
        /\ nterrain' = r.terrain
    /\ nedits' = nedits + 1
    /\ UNCHANGED <<nnow, nphase, nregens, nprev, nstart>>
    /\ UNCHANGED notRegenVars

\* The last edit was made: the chunk receives no further edits.
RegenLeave ==
    /\ nphase = "edit"
    /\ nedits > 0
    /\ nphase' = "regen"
    /\ nstart' = mut_chunk(nterrain, RegenChunk).chunks[RegenChunk].data
    /\ UNCHANGED <<nterrain, nnow, nedits, nregens, nprev>>
    /\ UNCHANGED notRegenVars

\* Terrain::post_update of a tick, and the tick passes.
RegenPostUpdate ==
    /\ nphase = "regen"
    /\ nnow < MaxRegenTicks
    /\ nterrain' = post_update(nterrain, nnow)
    /\ nnow' = nnow + 1
    /\ IF RegenChunk \in RegenerationDue(nterrain, nnow)
       THEN /\ nregens' = nregens + 1
            /\ nprev' = nterrain.chunks[RegenChunk].data
       ELSE UNCHANGED <<nregens, nprev>>
    /\ UNCHANGED <<nphase, nedits, nstart>>
    /\ UNCHANGED notRegenVars

RegenNext ==
    \/ \E coord \in RegenCoords, value \in RegenValues : RegenSet(coord, value)
    \/ RegenLeave
    \/ RegenPostUpdate

InitRegen == RegenInit /\ MutIdle /\ GetIdle /\ CodecIdle /\ RectIdle /\ TerrainIdle /\ PhysIdle
             /\ ContactIdle /\ ParticleIdle /\ AltIdle /\ ModifyIdle /\ ApplyIdle /\ DrainIdle
             /\ AzimuthIdle /\ ArmIdle /\ SyncIdle /\ FatesIdle /\ AimIdle /\ UpdIdle /\ CollideIdle /\ BorderIdle /\ SurfaceIdle /\ BitmapIdle /\ ConvertIdle

SpecRegen == InitRegen /\ [][RegenNext]_vars

\* The pixels of the chunk of RegenChunk, and what the generator gives.
RegenPixels == (0..(CHUNK_SIZE - 1)) \X (0..(CHUNK_SIZE - 1))
RegenData == nterrain.chunks[RegenChunk].data
Original(c) == HighNibble(Generate(nterrain.generator, c[1], c[2])) * 16

\* One nibble step of a height toward another.
NibbleToward(height, original) ==
    IF height < original THEN height + 16
    ELSE IF height > original THEN height - 16
    ELSE height

\* C33: once the chunk is left alone, every regeneration moves each pixel
\* that differs from the generator's value one nibble step toward it and
\* leaves the others as they are; after a regeneration the chunk is scheduled
\* again exactly when a pixel still differs; and by the 15th regeneration the
\* chunk is what the generator gives and is not scheduled, so that no 16th
\* regeneration happens.
C33_RegenerationConverges ==
    (nphase = "regen" /\ nregens > 0) =>
        /\ \A c \in RegenPixels :
              ChunkAt(RegenData, c) = NibbleToward(ChunkAt(nprev, c), Original(c))
        /\ (nterrain.chunks[RegenChunk].next_regen # None)
              <=> (\E c \in RegenPixels : ChunkAt(RegenData, c) # Original(c))
        /\ nregens <= MaxRegenerations
        /\ nregens = MaxRegenerations =>
              /\ RegenData = ChunkNew(RegenChunk, nterrain.generator)
              /\ nterrain.chunks[RegenChunk].next_regen = None

\* A pixel 15 nibbles away from the generator's value came back to it in 15
\* regenerations, and ticks have passed since without another regeneration.
C33_Witness ==
    /\ nphase = "regen"
    /\ nregens = MaxRegenerations
    /\ \E c \in RegenCoords : ChunkAt(nstart, c) = 240 /\ Original(c) = 0
    /\ ChunkAt(nprev, Coord(0, 0)) # ChunkAt(RegenData, Coord(0, 0))
    /\ RegenData = ChunkNew(RegenChunk, nterrain.generator)
    /\ nnow > MaxRegenerations + 1

(***************************************************************************)
(* EntityData::update_turret_aim (common/src/entity.rs l.249-283), for one *)
(* turret.  What the boat's transform, the turret's position and the       *)
(* target position make of a target is its direction relative to the boat; *)
(* a call without a target aims at the turret's base angle.                *)
(***************************************************************************)

\* The calls of update_turret_aim.
MaxAimCalls == 3

\* turret.speed in angle units a second and delta_seconds in seconds.
AimSpeeds == {1, 3}
AimDeltas == {1, 3}

\* Azimuth limits: none and three units to a side.
AimLimits == {0, 3}

AimTurrets ==
    { Turret(a, fl, fr, bl, br) :
        a \in {0, PI}, fl \in AimLimits, fr \in AimLimits, bl \in AimLimits, br \in AimLimits }

\* Angle::from_radians((delta_seconds * turret.speed.to_radians()).clamp(0.0, PI))
AimAmount(delta_seconds, speed) ==
    IF delta_seconds * speed > PI THEN PI
    ELSE IF delta_seconds * speed < 0 THEN 0
    ELSE delta_seconds * speed

\* Angle::abs
AngleAbs(a) == IF a < 0 THEN 0 - a ELSE a

\* Angle::clamp_magnitude
AngleClampMagnitude(a, max) ==
    IF a > max THEN max ELSE IF a < 0 - max THEN 0 - max ELSE a

\* The targets of a call: none, or one in any direction from the boat.
NoTarget == [some |-> FALSE]
SomeTarget(direction) == [some |-> TRUE, direction |-> direction]
AimTargets == {NoTarget} \cup {SomeTarget(direction) : direction \in Angles}

\* direction_target of a call.
DirectionTarget(turret, position_target) ==
    IF position_target = NoTarget THEN turret.angle ELSE position_target.direction

\* The condition under which update_turret_aim turns the turret (l.276-279).
TurnAllowed(turret, a, delta_angle, direction_target) ==
    /\ delta_angle # 0
    /\ \/ within_azimuth(turret, AngleAdd(a, delta_angle))
       \/ within_azimuth(turret, direction_target)

\* The body of the loop of update_turret_aim for one turret: the new angle.
update_turret_aim(turret, speed, a, position_target, delta_seconds) ==
    LET amount == AimAmount(delta_seconds, speed)
        direction_target == DirectionTarget(turret, position_target)
        delta_angle == AngleClampMagnitude(AngleSub(direction_target, a), amount)
    IN  IF TurnAllowed(turret, a, delta_angle, direction_target)
        THEN AngleAdd(a, delta_angle)
        ELSE a

AimInit ==
    /\ hturret \in AimTurrets
    /\ hspeed \in AimSpeeds
    /\ hangle \in {a \in Angles : within_azimuth(hturret, a)}
    /\ hprev = hangle
    /\ htarget = NoTarget
    /\ hdelta = 0
    /\ hcalls = 0

\* A call of update_turret_aim.
UpdateTurretAim(position_target, delta_seconds) ==
    /\ hcalls < MaxAimCalls
    /\ hangle' = update_turret_aim(hturret, hspeed, hangle, position_target, delta_seconds)
    /\ hprev' = hangle
    /\ htarget' = position_target
    /\ hdelta' = delta_seconds
    /\ hcalls' = hcalls + 1
    /\ UNCHANGED <<hturret, hspeed>>
    /\ UNCHANGED notAimVars

AimNext ==
    \/ \E position_target \in AimTargets, delta_seconds \in AimDeltas :
          UpdateTurretAim(position_target, delta_seconds)

InitAim == AimInit /\ MutIdle /\ GetIdle /\ CodecIdle /\ RectIdle /\ TerrainIdle /\ PhysIdle
           /\ ContactIdle /\ ParticleIdle /\ AltIdle /\ ModifyIdle /\ ApplyIdle /\ DrainIdle
           /\ AzimuthIdle /\ ArmIdle /\ SyncIdle /\ FatesIdle /\ RegenIdle /\ UpdIdle /\ CollideIdle /\ BorderIdle /\ SurfaceIdle /\ BitmapIdle /\ ConvertIdle

SpecAim == InitAim /\ [][AimNext]_vars

\* C34: a call of update_turret_aim that leaves the turret's angle as it was
\* leaves it at an angle that satisfies within_azimuth, and a call changes
\* the angle by at most delta_seconds * turret.speed, capped at pi.
C34_NeverStopsInRestricted ==
    hcalls > 0 =>
        /\ hangle = hprev => within_azimuth(hturret, hangle)
        /\ AngleAbs(AngleSub(hangle, hprev)) <= AimAmount(hdelta, hspeed)

\* The part of C34 about the rate of turn.
C34_TurnsAtMostAmount ==
    hcalls > 0 => AngleAbs(AngleSub(hangle, hprev)) <= AimAmount(hdelta, hspeed)

(***************************************************************************)
(* The operations of a Terrain in any order: modify, apply_update,         *)
(* pre_update, post_update, clear_updated and get_chunk (common/src/       *)
(* terrain.rs).  An operation that panics ends the use of the Terrain.     *)
(***************************************************************************)

\* The operations on the Terrain.
MaxUpdOps == 4

UpdGenerators == {"zero", "gradient"}

\* Mutations within one chunk and across the four chunks.
UpdMutations ==
    { TerrainMutation(p, a, FullRange, FullRange) : p \in {<<1, 2>>, <<-2, -1>>}, a \in {50, -50} }

\* Updates of one chunk: whole, as a Mod, and too short to decode.
UpdUpdates ==
    { <<[chunk_id |-> id, serialized |-> serialized]>> :
        id \in {<<0, 0>>, <<1, 0>>},
        serialized \in { SerializedChunk(FALSE, CompleteBytes), SerializedChunk(TRUE, ModsBytes),
                         SerializedChunk(FALSE, ShortBytes) } }

UpdChunkIds == {<<0, 0>>, <<1, 1>>}

UpdInit ==
    /\ \E g \in UpdGenerators : vterrain = Terrain(g)
    /\ vnow = 0
    /\ vops = 0
    /\ vlast = ""
    /\ vpanic = FALSE

\* What every operation does besides its own effect.
UpdOperation(name) ==
    /\ vops < MaxUpdOps
    /\ ~vpanic
    /\ vops' = vops + 1
    /\ vlast' = name
    /\ UNCHANGED notUpdVars

\* Terrain::modify(mutation)
UpdModify(mutation) ==
    /\ UpdOperation("modify")
    /\ \E r \in {modify(vterrain, mutation)} :
          IF r = Panic
          THEN vpanic' = TRUE /\ UNCHANGED vterrain
          ELSE vpanic' = FALSE /\ vterrain' = r.terrain
    /\ UNCHANGED vnow

\* Terrain::apply_update(update)
UpdApplyUpdate(update) ==
    /\ UpdOperation("apply_update")
    /\ \E r \in {apply_update(vterrain, update)} :
          /\ vterrain' = r.terrain
          /\ vpanic' = (r.result = "panic")
    /\ UNCHANGED vnow

\* Terrain::pre_update
UpdPreUpdate ==
    /\ UpdOperation("pre_update")
    /\ \E r \in {pre_update(vterrain)} :
          IF r = Panic
          THEN vpanic' = TRUE /\ UNCHANGED vterrain
          ELSE vpanic' = FALSE /\ vterrain' = r
    /\ UNCHANGED vnow

\* Terrain::post_update, once a tick.
UpdPostUpdate ==
    /\ UpdOperation("post_update")
    /\ vterrain' = post_update(vterrain, vnow)
    /\ vnow' = vnow + 1
    /\ UNCHANGED vpanic

\* Terrain::clear_updated
UpdClearUpdated ==
    /\ UpdOperation("clear_updated")
    /\ vterrain' = clear_updated(vterrain)
    /\ UNCHANGED <<vnow, vpanic>>

\* Terrain::get_chunk(chunk_id)
UpdGetChunk(chunk_id) ==
    /\ UpdOperation("get_chunk")
    /\ vterrain' = mut_chunk(vterrain, chunk_id)
    /\ UNCHANGED <<vnow, vpanic>>

UpdNext ==
    \/ \E mutation \in UpdMutations : UpdModify(mutation)
    \/ \E update \in UpdUpdates : UpdApplyUpdate(update)
    \/ UpdPreUpdate
    \/ UpdPostUpdate
    \/ UpdClearUpdated
    \/ \E chunk_id \in UpdChunkIds : UpdGetChunk(chunk_id)

InitUpd == UpdInit /\ MutIdle /\ GetIdle /\ CodecIdle /\ RectIdle /\ TerrainIdle /\ PhysIdle
           /\ ContactIdle /\ ParticleIdle /\ AltIdle /\ ModifyIdle /\ ApplyIdle /\ DrainIdle
           /\ AzimuthIdle /\ ArmIdle /\ SyncIdle /\ FatesIdle /\ RegenIdle /\ AimIdle /\ CollideIdle /\ BorderIdle /\ SurfaceIdle /\ BitmapIdle /\ ConvertIdle

SpecUpd == InitUpd /\ [][UpdNext]_vars

C35_WitnessMods ==
    /\ vlast = "pre_update"
    /\ \E id \in vterrain.updated : vterrain.chunks[id].update.kind = "Mods"

(***************************************************************************)
(* World::physics for a boat that collides with terrain (server/src/       *)
(* world_physics.rs l.226-384): the boat moves, collides_with_terrain      *)
(* returns a collision point and its altitude, and the boat is handled as  *)
(* any boat afterwards.                                                    *)
(***************************************************************************)

\* The ticks in a row in which the boat collides.
MaxCollisions == 2

CollideSubKinds == {"Hovercraft", "Icebreaker", "Dredger", "Cruiser"}

\* Collision altitudes: below the sea level, sand, thin ice, thick ice.
CollisionAltitudes == {-1, 0, 1, 2}

\* The point of the collision, which the enqueued terrain mutation names.
CollisionPoint == <<4, 4>>

\* A boat with its EntityData.sub_kind.
CollideBoat(sub_kind, position, velocity, ticks) ==
    [entity_type |-> "Boat", sub_kind |-> sub_kind, position |-> position,
     direction |-> <<1, 0>>, velocity |-> velocity, ticks |-> ticks]

\* The boats: in the arctic and south of it, healthy and one collision from
\* death, faster than 5 m/s in either direction and at rest.
CollideBoats ==
    { CollideBoat(k, <<-2, y>>, v, t) :
        k \in CollideSubKinds, y \in {ARCTIC - 1, ARCTIC}, v \in {-1, 0, 2},
        t \in {0, 1, MaxHealth - 1} }

\* let arctic = entity.transform.position.y >= common::world::ARCTIC
IsArctic(position) == position[2] >= ARCTIC

\* The collision of a boat with terrain (l.241-288): the boat afterwards,
\* whether it may still be repaired and whether the collision killed it.
TerrainCollision(m, delta, collision_altitude) ==
    LET arctic == IsArctic(m.position)
        slowed == [m EXCEPT !.velocity = ClampMagnitude(@, TerrainSpeed)]
        k == kill_in(slowed, delta, TerrainKillTicks)
    IN  IF Immune([sub_kind |-> m.sub_kind, arctic |-> arctic], collision_altitude)
        THEN [entity |-> slowed, repair_eligible |-> TRUE, dead |-> FALSE]
        ELSE [entity |-> k.entity, repair_eligible |-> FALSE, dead |-> k.dead]

\* The closure of the parallel pass for a boat that collides.
CollidePhysics(e, border_radius, delta, collision_altitude) ==
    LET m == do_kinematics(e, delta)
        c == TerrainCollision(m, delta, collision_altitude)
    IN  IF c.dead THEN Fate(c.entity, "Remove")
        ELSE BorderAndArea(c.entity, border_radius, delta, c.repair_eligible,
                           m.position # e.position)

CollideInit ==
    /\ oentity \in CollideBoats
    /\ obefore = oentity
    /\ oaltitude = 0
    /\ ofate = ""
    /\ opushes = <<>>
    /\ ocollisions = 0

\* A tick of World::physics in which the boat collides at the altitude.
Collide(collision_altitude) ==
    /\ ocollisions < MaxCollisions
    /\ ofate # "Remove"
    /\ \E f \in {CollidePhysics(oentity, MaxRadius, 1, collision_altitude)} :
          /\ oentity' = f.entity
          /\ ofate' = f.fate
    /\ obefore' = oentity
    /\ oaltitude' = collision_altitude
    /\ opushes' = BreakPushes(1, [sub_kind |-> oentity.sub_kind,
                                  arctic |-> IsArctic(do_kinematics(oentity, 1).position),
                                  collision |-> CollisionPoint], collision_altitude)
    /\ ocollisions' = ocollisions + 1
    /\ UNCHANGED notCollideVars

CollideNext ==
    \/ \E collision_altitude \in CollisionAltitudes : Collide(collision_altitude)

InitCollide == CollideInit /\ MutIdle /\ GetIdle /\ CodecIdle /\ RectIdle /\ TerrainIdle /\ PhysIdle
               /\ ContactIdle /\ ParticleIdle /\ AltIdle /\ ModifyIdle /\ ApplyIdle /\ DrainIdle
               /\ AzimuthIdle /\ ArmIdle /\ SyncIdle /\ FatesIdle /\ RegenIdle /\ AimIdle /\ UpdIdle /\ BorderIdle /\ SurfaceIdle /\ BitmapIdle /\ ConvertIdle

SpecCollide == InitCollide /\ [][CollideNext]_vars

\* The damage of a tick at the rate that kills a healthy boat in 4 seconds.
CollisionDamage == Max(1, MaxHealth \div TerrainKillTicks)

\* The boat stayed within the border and its area in the last tick, so that
\* nothing but the collision damaged it.
CollidedInside ==
    /\ ocollisions > 0
    /\ ~outside_border(do_kinematics(obefore, 1).position, MaxRadius)
    /\ ~outside_area("Boat", do_kinematics(obefore, 1).position)

\* What the last tick did to the boat, given whether the boat was immune:
\* its speed is clamped to 5 m/s in any case; an immune boat takes no damage
\* and is repaired as a boat that did not collide; another boat takes the
\* damage, is not repaired, and is removed if the damage kills it.
CollisionOutcome(immune) ==
    /\ oentity.velocity = ClampMagnitude(obefore.velocity, TerrainSpeed)
    /\ oentity.velocity \in (0 - TerrainSpeed)..TerrainSpeed
    /\ IF immune
       THEN /\ ofate # "Remove"
            /\ oentity.ticks = Max(0, obefore.ticks - 1)
       ELSE /\ oentity.ticks = Min(obefore.ticks + CollisionDamage, MaxHealth)
            /\ (ofate = "Remove") <=> (obefore.ticks + CollisionDamage >= MaxHealth)

\* C36 as stated: the immune boats are exactly the Hovercraft and the
\* Icebreaker whose collision altitude is 1 or less.
C36_ImmuneAsStated ==
    CollidedInside =>
        CollisionOutcome(\/ obefore.sub_kind = "Hovercraft"
                         \/ obefore.sub_kind = "Icebreaker" /\ oaltitude <= 1)

\* C36: a boat that collides with terrain has its speed clamped to 5 m/s and
\* takes collision damage (kill_in over 4 seconds, no repair) unless it is
\* immune; the immune boats are exactly the Hovercraft, the Icebreaker in
\* the arctic whose collision altitude is 1 or less, and the Dredger outside
\* of the arctic.
C36_ImmuneBoats ==
    CollidedInside =>
        CollisionOutcome(\/ obefore.sub_kind = "Hovercraft"
                         \/ /\ obefore.sub_kind = "Icebreaker"
                            /\ oaltitude <= 1
                            /\ oentity.position[2] >= ARCTIC
                         \/ /\ obefore.sub_kind = "Dredger"
                            /\ oentity.position[2] < ARCTIC)

\* An Icebreaker south of the arctic was damaged on sand and slowed down.
C36_Witness ==
    /\ CollidedInside
    /\ obefore.sub_kind = "Icebreaker"
    /\ oentity.position[2] < ARCTIC
    /\ oaltitude <= 1
    /\ oentity.ticks > obefore.ticks
    /\ obefore.velocity > TerrainSpeed

\* A Dredger in the arctic was killed by its collision, and one south of it
\* was not damaged.
C36_WitnessDredgerKilled ==
    /\ CollidedInside
    /\ obefore.sub_kind = "Dredger"
    /\ oentity.position[2] >= ARCTIC
    /\ ofate = "Remove"

C36_WitnessDredgerImmune ==
    /\ CollidedInside
    /\ obefore.sub_kind = "Dredger"
    /\ oentity.position[2] < ARCTIC
    /\ obefore.ticks = MaxHealth - 1
    /\ ofate # "Remove"

\* An Icebreaker in the arctic went through thin ice unharmed.
C36_WitnessImmune ==
    /\ CollidedInside
    /\ obefore.sub_kind = "Icebreaker"
    /\ oentity.position[2] >= ARCTIC
    /\ oaltitude = 1
    /\ obefore.ticks > 0
    /\ oentity.ticks < obefore.ticks
    /\ Len(opushes) = 1

(***************************************************************************)
(* World::physics for a boat that leaves the world border (server/src/     *)
(* world_physics.rs l.320-351).  The boat is on the integer lattice, its   *)
(* direction is one of the four lattice directions and its velocity is the *)
(* signed speed along its direction.                                       *)
(***************************************************************************)

\* The ticks of physics.
MaxBorderTicks == 2

BorderDirections == {<<1, 0>>, <<0, 1>>, <<-1, 0>>, <<0, -1>>}
BorderVelocities == {-2, -1, 1, 2}

\* The boats within the border of the radius and within their area.
BorderBoats(border_radius) ==
    { e \in { Entity("Boat", <<x, y>>, d, v, t) :
                 x \in (0 - border_radius)..border_radius,
                 y \in (0 - border_radius)..ARCTIC,
                 d \in BorderDirections, v \in BorderVelocities, t \in {0, 1} } :
        ~outside_border(e.position, border_radius) }

BorderInit ==
    /\ bradius \in MinRadius..MaxRadius
    /\ bentity \in BorderBoats(bradius)
    /\ bbefore = bentity
    /\ bfate = ""
    /\ bticks = 0

\* A tick of World::physics for the boat; collision is whether the boat
\* collides with terrain on its way.
BorderPhysics(collision) ==
    /\ bticks < MaxBorderTicks
    /\ bfate # "Remove"
    /\ \E f \in {PhysicsEntity(bentity, bradius, 1, FALSE, collision)} :
          /\ bentity' = f.entity
          /\ bfate' = f.fate
    /\ bbefore' = bentity
    /\ bticks' = bticks + 1
    /\ UNCHANGED bradius
    /\ UNCHANGED notBorderVars

BorderNext ==
    \/ \E collision \in BOOLEAN : BorderPhysics(collision)

InitBorder == BorderInit /\ MutIdle /\ GetIdle /\ CodecIdle /\ RectIdle /\ TerrainIdle /\ PhysIdle
              /\ ContactIdle /\ ParticleIdle /\ AltIdle /\ ModifyIdle /\ ApplyIdle /\ DrainIdle
              /\ AzimuthIdle /\ ArmIdle /\ SyncIdle /\ FatesIdle /\ RegenIdle /\ AimIdle /\ UpdIdle
              /\ CollideIdle /\ SurfaceIdle /\ BitmapIdle /\ ConvertIdle

SpecBorder == InitBorder /\ [][BorderNext]_vars

\* Where the last tick's kinematics took the boat.
BorderMoved == do_kinematics(bbefore, 1).position

\* The last tick found the boat outside of the border, within its area, and
\* the boat survived.
LeftBorderAndSurvived ==
    /\ bticks > 0
    /\ outside_border(BorderMoved, bradius)
    /\ ~outside_area("Boat", BorderMoved)
    /\ bfate # "Remove"

\* The velocity of the boat as a vector, and the cross product of two
\* vectors (zero when they are parallel).
VelocityVector(e) == <<e.direction[1] * e.velocity, e.direction[2] * e.velocity>>
Cross(p, q) == p[1] * q[2] - p[2] * q[1]

\* The position is where the ray from the origin through `moved` meets the
\* border, rounded toward the origin on the lattice.
OnBorderToward(position, moved, border_radius) ==
    /\ ~outside_border(position, border_radius)
    /\ outside_border(<<position[1] + (IF moved[1] > 0 THEN 1 ELSE IF moved[1] < 0 THEN -1 ELSE 0),
                        position[2] + (IF moved[2] > 0 THEN 1 ELSE IF moved[2] < 0 THEN -1 ELSE 0)>>,
                      border_radius)
    /\ position[1] * moved[1] >= 0
    /\ position[2] * moved[2] >= 0

\* C37 as stated: the boat is on the border and moves at 10 m/s along the
\* inward normal of the border, whatever its heading.
C37_InwardAtFullSpeed ==
    LeftBorderAndSurvived =>
        /\ OnBorderToward(bentity.position, BorderMoved, bradius)
        /\ Cross(VelocityVector(bentity), bentity.position) = 0
        /\ Dot(VelocityVector(bentity), bentity.position) < 0
        /\ bentity.velocity \in {BorderSpeed, 0 - BorderSpeed}

\* C37: a boat found outside of the border that survives the tick is snapped
\* onto the border, and its velocity, the signed speed along its heading, is
\* 10 m/s times the cosine of the angle between the inward normal and the
\* heading: 10 m/s inward for a heading along the normal, nothing for a
\* heading along the border, and never outward.
C37_VelocityProjected ==
    LeftBorderAndSurvived =>
        /\ OnBorderToward(bentity.position, BorderMoved, bradius)
        /\ bentity.direction = bbefore.direction
        /\ bentity.velocity \in (0 - BorderSpeed)..BorderSpeed
        /\ Dot(VelocityVector(bentity), bentity.position) <= 0
        /\ Cross(bentity.direction, bentity.position) = 0
              => /\ bentity.velocity \in {BorderSpeed, 0 - BorderSpeed}
                 /\ Dot(VelocityVector(bentity), bentity.position) < 0
        /\ Dot(bentity.direction, bentity.position) = 0 => bentity.velocity = 0
        /\ bentity.velocity * bentity.velocity * LengthSquared(bentity.position)
              <= BorderSpeed * BorderSpeed * Dot(bentity.direction, bentity.position)
                                           * Dot(bentity.direction, bentity.position)

\* A boat heading along the border left it and stands still on the border.
C37_Witness ==
    /\ LeftBorderAndSurvived
    /\ Dot(bentity.direction, bentity.position) = 0
    /\ bentity.velocity = 0
    /\ bbefore.velocity # 0

\* A boat heading outward left the border and moves inward at 10 m/s.
C37_WitnessRadial ==
    /\ LeftBorderAndSurvived
    /\ Cross(bentity.direction, bentity.position) = 0
    /\ Dot(bentity.direction, bentity.position) > 0
    /\ bentity.velocity = 0 - BorderSpeed

(***************************************************************************)
(* World::physics for a weapon under water (server/src/world_physics.rs    *)
(* l.74-108, 159-179, 226-349).  Entity::apply_altitude_target, Altitude:: *)
(* is_submerged and Transform::apply_guidance are not part of the sources  *)
(* at hand: the altitude takes one rate-limited step toward the altitude   *)
(* the terrain allows, an altitude below zero is submerged, and guidance   *)
(* gets max_speed as the limit of the speed.  Speeds are in units of       *)
(* 0.5 m/s.                                                                *)
(***************************************************************************)

\* The ticks of physics and the deepest altitude.
MaxSurfaceTicks == 4
MaxDepth == 5

\* EntityData.lifespan and EntityData.speed of the projectiles.
ProjectileLifespan == 3
ProjectileSpeed == 60

\* EntityData::SURFACING_PROJECTILE_SPEED_LIMIT
SURFACING_PROJECTILE_SPEED_LIMIT == 1

\* delta of World::physics, at most the lifespan of a projectile.
SurfaceDeltas == {1, 2}

SurfaceSubKinds == {"Missile", "Rocket", "RocketTorpedo", "Sam", "Torpedo"}

Projectile(sub_kind, lifespan, ticks, altitude) ==
    [sub_kind |-> sub_kind, lifespan |-> lifespan, ticks |-> ticks, altitude |-> altitude]

\* Altitude::is_submerged
is_submerged(altitude) == altitude < 0

\* The sub kinds that wait until risen to the surface (l.164-167).
IsSurfacing(sub_kind) == sub_kind \in {"Missile", "Rocket", "RocketTorpedo", "Sam"}

\* A variant that leaves the aging of the tick as it is.
SurfaceTicksAged(ticks, lifespan, altitude_change, delta) == ticks

\* The reversal of the aging of the tick (l.174-178).
SurfaceTicks(ticks, lifespan, altitude_change, delta) ==
    IF lifespan # 0 /\ altitude_change > 0 THEN TicksSaturatingSub(ticks, delta) ELSE ticks

\* The closure of the parallel pass for a weapon: the weapon afterwards, its
\* altitude_change and max_speed, and the fate, "Expired" for the removal of
\* l.86-87.  target is the altitude that apply_altitude_target steers to.
SurfacePhysicsEntity(e, delta, target, left_game, collision, outside) ==
    LET aged == IF e.lifespan # 0 THEN [e EXCEPT !.ticks = TicksSaturatingAdd(@, delta)] ELSE e
        risen == [aged EXCEPT !.altitude = @ + ClampMagnitude(target - @, delta)]
        altitude_change == risen.altitude - aged.altitude
        waiting == is_submerged(risen.altitude) /\ IsSurfacing(e.sub_kind)
        after == IF waiting
                 THEN [risen EXCEPT !.ticks = SurfaceTicks(@, e.lifespan, altitude_change, delta)]
                 ELSE risen
        max_speed == IF waiting THEN SURFACING_PROJECTILE_SPEED_LIMIT ELSE ProjectileSpeed
    IN  IF e.lifespan # 0 /\ aged.ticks > e.lifespan
        THEN [entity |-> aged, change |-> 0, max_speed |-> 0, fate |-> "Expired"]
        ELSE IF left_game
        THEN [entity |-> aged, change |-> 0, max_speed |-> 0, fate |-> "Remove"]
        ELSE [entity |-> after, change |-> altitude_change, max_speed |-> max_speed,
              fate |-> IF collision \/ outside THEN "Remove" ELSE "None"]

SurfaceInit ==
    /\ \E sub_kind \in SurfaceSubKinds, lifespan \in {0, ProjectileLifespan},
          ticks \in {0, 1}, altitude \in (0 - MaxDepth)..0 :
          qentity = Projectile(sub_kind, lifespan, ticks, altitude)
    /\ qbefore = qentity
    /\ qstart = qentity.ticks
    /\ qchange = 0
    /\ qmax_speed = 0
    /\ qfate = ""
    /\ qcount = 0
    /\ qrun = 0

\* The tick was one in which the projectile rose and is still submerged.
RoseSubmerged(r) ==
    /\ r.fate \notin {"Expired", "Remove"}
    /\ r.change > 0
    /\ is_submerged(r.entity.altitude)

\* A tick of World::physics for the projectile.
SurfacePhysics(delta, target, left_game, collision, outside) ==
    /\ qcount < MaxSurfaceTicks
    /\ qfate \notin {"Expired", "Remove"}
    /\ \E r \in {SurfacePhysicsEntity(qentity, delta, target, left_game, collision, outside)} :
          /\ qentity' = r.entity
          /\ qchange' = r.change
          /\ qmax_speed' = r.max_speed
          /\ qfate' = r.fate
          /\ qrun' = IF qrun = qcount /\ RoseSubmerged(r) THEN qrun + 1 ELSE qrun
    /\ qbefore' = qentity
    /\ qcount' = qcount + 1
    /\ UNCHANGED qstart
    /\ UNCHANGED notSurfaceVars

SurfaceNext ==
    \/ \E delta \in SurfaceDeltas, target \in {0 - MaxDepth, 0},
          left_game, collision, outside \in BOOLEAN :
          SurfacePhysics(delta, target, left_game, collision, outside)

InitSurface == SurfaceInit /\ MutIdle /\ GetIdle /\ CodecIdle /\ RectIdle /\ TerrainIdle /\ PhysIdle
               /\ ContactIdle /\ ParticleIdle /\ AltIdle /\ ModifyIdle /\ ApplyIdle /\ DrainIdle
               /\ AzimuthIdle /\ ArmIdle /\ SyncIdle /\ FatesIdle /\ RegenIdle /\ AimIdle /\ UpdIdle
               /\ CollideIdle /\ BorderIdle /\ BitmapIdle /\ ConvertIdle

SpecSurface == InitSurface /\ [][SurfaceNext]_vars

UsizeBytes == 2
UsizeBits == 8 * UsizeBytes

\* The operations on the two sets.
MaxSetOps == 6

\* u32::count_ones
RECURSIVE count_ones(_)
count_ones(n) == IF n = 0 THEN 0 ELSE (n % 2) + count_ones(n \div 2)

\* const ROW_SIZE, ROW_SIZE_LOG2, DATA_SIZE
ROW_SIZE == UsizeBytes
ROW_SIZE_LOG2 == count_ones(ROW_SIZE - 1)
DATA_SIZE == (SIZE_CHUNKS * SIZE_CHUNKS) \div ROW_SIZE

\* ChunkId::as_index and ChunkId::from_index
as_index(chunk_id) == chunk_id[1] + chunk_id[2] * SIZE_CHUNKS
from_index(index) == <<index % SIZE_CHUNKS, index \div SIZE_CHUNKS>>

\* The ChunkIds of the terrain whose index is within the bitmap (all of them
\* when ROW_SIZE divides the number of chunks, as it does in the program).
BitmapChunkIds == {id \in TerrainChunkIds : as_index(id) < DATA_SIZE * ROW_SIZE}

\* usize operators: 0, 1 << k, a & b, a | b, !a.
UsizeZero == {}
UsizeBit(k) == {k}
UsizeAnd(a, b) == a \cap b
UsizeOr(a, b) == a \cup b
UsizeNot(a) == (0..(UsizeBits - 1)) \ a

\* ChunkSet::new; data[i] of the program is data[i + 1] here.
BitmapNew == [i \in 1..DATA_SIZE |-> UsizeZero]

\* ChunkSet::contains_index and ChunkSet::contains
contains_index(set, index) ==
    LET row == set[(index \div (2 ^ ROW_SIZE_LOG2)) + 1]
    IN  UsizeAnd(row, UsizeBit(index % ROW_SIZE)) # UsizeZero

BitmapContains(set, chunk_id) == contains_index(set, as_index(chunk_id))

\* ChunkSet::is_empty
BitmapIsEmpty(set) == set = BitmapNew

\* ChunkSet::add_index and ChunkSet::add
add_index(set, index) ==
    [set EXCEPT ![(index \div (2 ^ ROW_SIZE_LOG2)) + 1] = UsizeOr(@, UsizeBit(index % ROW_SIZE))]

BitmapAdd(set, chunk_id) == add_index(set, as_index(chunk_id))

\* ChunkSet::into_iter, as the sequence of the ChunkIds it yields.
RECURSIVE IntoIterFrom(_, _)
IntoIterFrom(set, index) ==
    IF index >= DATA_SIZE * ROW_SIZE THEN <<>>
    ELSE (IF contains_index(set, index) THEN <<from_index(index)>> ELSE <<>>)
             \o IntoIterFrom(set, index + 1)

BitmapIntoIter(set) == IntoIterFrom(set, 0)

\* ChunkSet::and, ChunkSet::or and ChunkSet::not, through binary_op and
\* unary_op.
BitmapAnd(set, other) == [i \in 1..DATA_SIZE |-> UsizeAnd(set[i], other[i])]
BitmapOr(set, other) == [i \in 1..DATA_SIZE |-> UsizeOr(set[i], other[i])]
BitmapNot(set) == [i \in 1..DATA_SIZE |-> UsizeNot(set[i])]

BitmapInit ==
    /\ ka = BitmapNew
    /\ kb = BitmapNew
    /\ kaids = {}
    /\ kbids = {}
    /\ kops = 0

\* What every operation does besides its own effect; the operations act on
\* ka and leave kb alone.
BitmapOperation ==
    /\ kops < MaxSetOps
    /\ kops' = kops + 1
    /\ UNCHANGED <<kb, kbids>>
    /\ UNCHANGED notBitmapVars

\* ka = ChunkSet::new()
BitmapOpNew ==
    /\ BitmapOperation
    /\ ka' = BitmapNew
    /\ kaids' = {}

\* ka.add(chunk_id)
BitmapOpAdd(chunk_id) ==
    /\ BitmapOperation
    /\ ka' = BitmapAdd(ka, chunk_id)
    /\ kaids' = kaids \cup {chunk_id}

\* ka = ka.and(&kb)
BitmapOpAnd ==
    /\ BitmapOperation
    /\ ka' = BitmapAnd(ka, kb)
    /\ kaids' = kaids \cap kbids

\* ka = ka.or(&kb)
BitmapOpOr ==
    /\ BitmapOperation
    /\ ka' = BitmapOr(ka, kb)
    /\ kaids' = kaids \cup kbids

\* ka = ka.not()
BitmapOpNot ==
    /\ BitmapOperation
    /\ ka' = BitmapNot(ka)
    /\ kaids' = BitmapChunkIds \ kaids

\* std::mem::swap(&mut ka, &mut kb)
BitmapOpSwap ==
    /\ kops < MaxSetOps
    /\ kops' = kops + 1
    /\ ka' = kb
    /\ kb' = ka
    /\ kaids' = kbids
    /\ kbids' = kaids
    /\ UNCHANGED notBitmapVars

BitmapNext ==
    \/ BitmapOpNew
    \/ \E chunk_id \in BitmapChunkIds : BitmapOpAdd(chunk_id)
    \/ BitmapOpAnd
    \/ BitmapOpOr
    \/ BitmapOpNot
    \/ BitmapOpSwap

InitBitmap == BitmapInit /\ MutIdle /\ GetIdle /\ CodecIdle /\ RectIdle /\ TerrainIdle /\ PhysIdle
              /\ ContactIdle /\ ParticleIdle /\ AltIdle /\ ModifyIdle /\ ApplyIdle /\ DrainIdle
              /\ AzimuthIdle /\ ArmIdle /\ SyncIdle /\ FatesIdle /\ RegenIdle /\ AimIdle /\ UpdIdle
              /\ CollideIdle /\ BorderIdle /\ SurfaceIdle /\ ConvertIdle

SpecBitmap == InitBitmap /\ [][BitmapNext]_vars

\* The ChunkIds a sequence yields, each once.
Yields(seq, ids) ==
    /\ {seq[i] : i \in 1..Len(seq)} = ids
    /\ Len(seq) = Cardinality(ids)

\* contains and into_iter follow the set the operations are to build.
ContainsAsSet(set, ids) ==
    /\ \A id \in BitmapChunkIds : BitmapContains(set, id) <=> id \in ids
    /\ Yields(BitmapIntoIter(set), ids)

\* C39: for ChunkSets built from new, add, and, or and not, contains follows
\* the semantics of sets, into_iter yields exactly the contained ids, two
\* sets that contain the same ids are equal, and is_empty is true exactly
\* when the set contains no ChunkId.
C39_SetSemantics ==
    /\ ContainsAsSet(ka, kaids)
    /\ ContainsAsSet(kb, kbids)
    /\ kaids = kbids => ka = kb
    /\ BitmapIsEmpty(ka) <=> kaids = {}
    /\ BitmapIsEmpty(kb) <=> kbids = {}

\* The part of C39 about contains and into_iter.
C39_ContainsAndIterate ==
    /\ ContainsAsSet(ka, kaids)
    /\ ContainsAsSet(kb, kbids)

\* The part of C39 about is_empty.
C39_IsEmptyIffNoId ==
    /\ BitmapIsEmpty(ka) <=> kaids = {}
    /\ BitmapIsEmpty(kb) <=> kbids = {}

\* The part of C39 about equality.
C39_SameIdsEqual == kaids = kbids => ka = kb

(***************************************************************************)
(* ChunkId::saturating_from and impl TryFrom<Vec2> for ChunkId (common/    *)
(* src/terrain.rs l.202-225).  A position is a pair of whole numbers of    *)
(* half pixels (SCALE / 2 meters each), so that pos * (1 / (SCALE *        *)
(* CHUNK_SIZE)) is the position over 2 * CHUNK_SIZE; the rounding of f32   *)
(* is not modelled.                                                        *)
(***************************************************************************)

\* How far beyond the terrain the positions go, in half pixels.
MaxBeyond == 4

\* f32 as i32: toward zero (no position of the model saturates).
AsI32(numerator, denominator) == DivTrunc(numerator, denominator)

\* ChunkId::saturating_from: pos += SIZE_CHUNKS as f32 / 2.0.
saturating_from(pos) ==
    <<Clamp(AsI32(pos[1] + CHUNK_SIZE * SIZE_CHUNKS, 2 * CHUNK_SIZE), <<0, SIZE_CHUNKS - 1>>),
      Clamp(AsI32(pos[2] + CHUNK_SIZE * SIZE_CHUNKS, 2 * CHUNK_SIZE), <<0, SIZE_CHUNKS - 1>>)>>

\* Result<ChunkId, &'static str>
Ok(chunk_id) == [ok |-> TRUE, id |-> chunk_id]
Err(error) == [ok |-> FALSE, error |-> error]

\* ChunkId::try_from: pos += SIZE as f32 / 2.0.
try_from(pos) ==
    LET x == AsI32(pos[1] + CHUNK_SIZE * SIZE, 2 * CHUNK_SIZE)
        y == AsI32(pos[2] + CHUNK_SIZE * SIZE, 2 * CHUNK_SIZE)
    IN  IF RangeContains(<<0, SIZE_CHUNKS - 1>>, x) /\ RangeContains(<<0, SIZE_CHUNKS - 1>>, y)
        THEN Ok(<<x, y>>)
        ELSE Err("out of terrain")

\* The coordinates of the positions: around the terrain, which spans SIZE
\* pixels, and where try_from finds its range.
ConvertCoordinates ==
    ((0 - SIZE - MaxBeyond)..(SIZE + MaxBeyond))
        \cup {0 - CHUNK_SIZE * SIZE, 2 * CHUNK_SIZE - CHUNK_SIZE * SIZE}

ConvertInit ==
    /\ jpos = <<>>
    /\ jtry = <<>>
    /\ jsat = <<>>
    /\ jcalls = 0

\* ChunkId::try_from(pos) and ChunkId::saturating_from(pos).
Convert(pos) ==
    /\ jcalls = 0
    /\ jpos' = pos
    /\ jtry' = try_from(pos)
    /\ jsat' = saturating_from(pos)
    /\ jcalls' = jcalls + 1
    /\ UNCHANGED notConvertVars

ConvertNext ==
    \/ \E x \in ConvertCoordinates, y \in ConvertCoordinates : Convert(<<x, y>>)

InitConvert == ConvertInit /\ MutIdle /\ GetIdle /\ CodecIdle /\ RectIdle /\ TerrainIdle /\ PhysIdle
               /\ ContactIdle /\ ParticleIdle /\ AltIdle /\ ModifyIdle /\ ApplyIdle /\ DrainIdle
               /\ AzimuthIdle /\ ArmIdle /\ SyncIdle /\ FatesIdle /\ RegenIdle /\ AimIdle /\ UpdIdle
               /\ CollideIdle /\ BorderIdle /\ SurfaceIdle /\ BitmapIdle

SpecConvert == InitConvert /\ [][ConvertNext]_vars

\* The position is inside the terrain, whose center is the origin.
InsideTerrain(pos) ==
    /\ 0 - SIZE <= pos[1] /\ pos[1] < SIZE
    /\ 0 - SIZE <= pos[2] /\ pos[2] < SIZE

\* The chunk that contains a position inside the terrain.
ContainingChunk(pos) == <<(pos[1] + SIZE) \div (2 * CHUNK_SIZE), (pos[2] + SIZE) \div (2 * CHUNK_SIZE)>>

\* C40: for a position inside the terrain try_from returns Ok with the id of
\* the chunk that contains the position, which is what saturating_from
\* gives and has 0 <= x, y < SIZE_CHUNKS; it returns Err only for positions
\* outside the terrain.
C40_TryFromInsideIsOk ==
    jcalls > 0 =>
        /\ InsideTerrain(jpos) =>
              /\ jtry = Ok(ContainingChunk(jpos))
              /\ jtry = Ok(jsat)
              /\ jsat \in TerrainChunkIds
        /\ jtry = Err("out of terrain") => ~InsideTerrain(jpos)

\* saturating_from gives the chunk that contains a position inside the
\* terrain.
C40_SaturatingFromInside ==
    (jcalls > 0 /\ InsideTerrain(jpos)) =>
        /\ jsat = ContainingChunk(jpos)
        /\ jsat \in TerrainChunkIds

\* try_from returns Err for every position inside the terrain.
C40_TryFromInsideIsErr ==
    (jcalls > 0 /\ InsideTerrain(jpos)) => jtry = Err("out of terrain")

\* try_from returned Ok for a position outside the terrain.
C40_OkOutside ==
    /\ jcalls > 0
    /\ ~InsideTerrain(jpos)
    /\ jtry = Ok(<<0, 1>>)
====
